---------------------------- MODULE Spec2Model ----------------------------
(***************************************************************************)
(* omniscript-converters: the inline tokenizer of the DOCX converter       *)
(* (parseInlineFormatting) and the sheet rendering of the PDF, DOCX and    *)
(* XLSX converters, modelled from the TypeScript sources.                  *)
(*                                                                         *)
(* Strings the code inspects character by character are sequences of       *)
(* one-character strings; JavaScript's 0-based indices are kept in the     *)
(* records the code builds (index, length, currentIndex).                  *)
(***************************************************************************)
EXTENDS Integers, Sequences, FiniteSets, TLC

(***************************************************************************)
(* Bounds of the model.                                                    *)
(***************************************************************************)
\* longest tokenizer input
MaxLen == 7

\* the backtick character (U+0060), which a TLA+ string literal cannot hold
Backtick == "<backtick>"

\* the characters tokenizer inputs are drawn from: the two marker
\* characters of the three rules and one ordinary character
Alphabet == {"*", Backtick, "a"}

\* largest row and column number of a well-formed CellMap key
MaxCoord == 2

\* largest number of well-formed entries of a CellMap
MaxCells == 2

\* largest column number given to numberToColumnLetter
MaxColumn == 710

\* largest number of pieces a formula expression is put together from
MaxPieces == 3

\* the longest document drawn for the conversions of mixed blocks
MaxBlocks == 3

\* the largest number of lines of doc content drawn
MaxLines == 3

\* the longest worksheet name given to sanitizeWorksheetName
MaxNameLen == 33

VARIABLES
  text,          \* parseInlineFormatting: the parameter
  matches,       \* parseInlineFormatting: the local array `matches`
  runs,          \* parseInlineFormatting: the local array `runs`
  currentIndex,  \* parseInlineFormatting: the cursor
  mi,            \* parseInlineFormatting: position of `for (const match of matches)`
  pc,            \* parseInlineFormatting: the statement about to run
  document,      \* convert: the blocks of the OSFDocument
  backend,       \* which converter's convert() is running: "pdf", "docx", "xlsx"
  bi,            \* position of `for (const block of document.blocks)`, 1-based
  cpc,           \* convert: the statement about to run
  html,          \* PDFConverter.generateHTML: the fragments appended to `html`
  elements,      \* DOCXConverter.generateDocumentElements: the array `elements`
  workbook,      \* XLSXConverter.convert: the worksheets of `workbook`
  currentRow,    \* XLSXConverter.createSheetWorksheet: the local `currentRow`
  hasSheets,     \* XLSXConverter.generateWorksheets: the local `hasSheets`
  thrown,        \* the error convert() has thrown, "none" while it has not
  options,       \* convert: the ConverterOptions argument
  worksheetIndex, \* XLSXConverter.generateWorksheets: the local `worksheetIndex`
  ppc,           \* convert: the awaited step about to run, after the block loop
  browser,       \* PDFConverter.convert: the launched browser, "none" before
  closeCalls,    \* PDFConverter.convert: how often browser.close() was called
  pending,       \* PDFConverter.convert: the error thrown inside the try block
  buffer,        \* convert: what was handed to the serializer, <<>> before
  column,        \* numberToColumnLetter: the argument the caller passed
  lnum,          \* numberToColumnLetter: the parameter `num`
  lresult,       \* numberToColumnLetter: the local `result`
  lpc,           \* numberToColumnLetter: the statement about to run
  calls,         \* concurrent convert() calls: backend, document and position
  heap,          \* the objects concurrent calls build, by owner
  dcontent,      \* renderDocBlock: the local `content`
  dlines,        \* renderDocBlock: the local array `lines`
  dli,           \* renderDocBlock: position of `for (const line of lines)`, 1-based
  dparagraph,    \* renderDocBlock: the local array `currentParagraph`
  delements,     \* renderDocBlock: the local array `elements`
  dpc,           \* renderDocBlock: the statement about to run
  sname,         \* sanitizeWorksheetName: the parameter `name`
  sresult,       \* sanitizeWorksheetName: the returned string
  spc            \* sanitizeWorksheetName: the statement about to run

tokVars == <<text, matches, runs, currentIndex, mi, pc>>

\* the state of convert() after the block loops
awaitVars == <<ppc, browser, closeCalls, pending, buffer>>

letterVars == <<column, lnum, lresult, lpc>>

concVars == <<calls, heap>>

\* the state of renderDocBlock
docVars == <<dcontent, dlines, dli, dparagraph, delements, dpc>>

\* the state of sanitizeWorksheetName
nameVars == <<sname, sresult, spc>>

unitVars == <<docVars, nameVars>>

extVars == <<options, worksheetIndex, awaitVars, letterVars, concVars, unitVars>>

convVars ==
  <<document, backend, bi, cpc, html, elements, workbook, currentRow,
    hasSheets, thrown, extVars>>

vars ==
  <<text, matches, runs, currentIndex, mi, pc, document, backend, bi, cpc,
    html, elements, workbook, currentRow, hasSheets, thrown, options,
    worksheetIndex, ppc, browser, closeCalls, pending, buffer, column, lnum, lresult, lpc, calls,
    heap, dcontent, dlines, dli, dparagraph, delements, dpc, sname, sresult,
    spc>>

(***************************************************************************)
(* Strings.                                                                *)
(***************************************************************************)
Min(a, b) == IF a <= b THEN a ELSE b

Max(a, b) == IF a >= b THEN a ELSE b

\* all character sequences over S of length at most n
StringsUpTo(S, n) == UNION {[1..k -> S] : k \in 0..n}

\* String.prototype.charAt with a 0-based index inside the string
CharAt(t, i) == t[i + 1]

\* String.prototype.substring(a, b): both ends clamped to [0, length] and
\* swapped when a > b
Substring(t, a, b) ==
  LET ca == Max(0, Min(a, Len(t)))
      cb == Max(0, Min(b, Len(t)))
      lo == Min(ca, cb)
      hi == Max(ca, cb)
  IN  [k \in 1..(hi - lo) |-> t[lo + k]]

\* String.prototype.substring(a): to the end of the string
SubstringFrom(t, a) == Substring(t, a, Len(t))

\* the regular expression atom `.`: any character but a line terminator
Dot(ch) == ch \notin {"\n", "\r"}

(***************************************************************************)
(* The three marker rules, in declaration order.                           *)
(***************************************************************************)
patterns ==
  << [delim |-> <<"*", "*">>, format |-> "bold"],
     [delim |-> <<"*">>,      format |-> "italics"],
     [delim |-> <<Backtick>>, format |-> "font"] >>

\* the literal d occurs in t at 0-based position s
LiteralAt(t, s, d) ==
  /\ s + Len(d) <= Len(t)
  /\ \A k \in 1..Len(d) : CharAt(t, s + k - 1) = d[k]

\* the inner lengths k for which  d (.{k}) d  matches t at position s
InnerLens(t, s, d) ==
  {k \in 1..Len(t) :
     /\ LiteralAt(t, s, d)
     /\ s + Len(d) + k + Len(d) <= Len(t)
     /\ \A j \in 0..(k - 1) : Dot(CharAt(t, s + Len(d) + j))
     /\ LiteralAt(t, s + Len(d) + k, d)}

SetMin(S) == CHOOSE x \in S : \A y \in S : x <= y

\* one regex.exec(text) of the pattern  d(.+?)d  with lastIndex = from: the
\* leftmost start at or after lastIndex, and there the shortest inner text
\* (the quantifier is lazy); <<>> when exec returns null
ExecFrom(t, d, from) ==
  LET starts == {s \in from..(Len(t) - 1) : InnerLens(t, s, d) # {}}
  IN  IF starts = {} THEN <<>>
      ELSE LET s == SetMin(starts)
               k == SetMin(InnerLens(t, s, d))
           IN  << [index  |-> s,
                   length |-> 2 * Len(d) + k,
                   text   |-> Substring(t, s + Len(d), s + Len(d) + k)] >>

\* while ((match = pattern.regex.exec(text)) !== null): every match of one
\* global pattern, each search starting at the end of the previous match
RECURSIVE ExecAll(_, _, _)
ExecAll(t, p, from) ==
  LET m == ExecFrom(t, p.delim, from)
  IN  IF m = <<>> THEN <<>>
      ELSE << [index  |-> m[1].index,
               length |-> m[1].length,
               text   |-> m[1].text,
               format |-> p.format] >>
           \o ExecAll(t, p, m[1].index + m[1].length)

\* for (const pattern of patterns) { ... matches.push(...) }
RECURSIVE FindMatches(_, _)
FindMatches(t, n) ==
  IF n = 0 THEN <<>>
  ELSE FindMatches(t, n - 1) \o ExecAll(t, patterns[n], 0)

\* insert m before every element whose index is not smaller than m's
RECURSIVE InsertBeforeEqual(_, _)
InsertBeforeEqual(sorted, m) ==
  IF sorted = <<>> THEN <<m>>
  ELSE IF sorted[Len(sorted)].index < m.index
       THEN Append(sorted, m)
       ELSE Append(InsertBeforeEqual(SubSeq(sorted, 1, Len(sorted) - 1), m),
                   sorted[Len(sorted)])

\* insert m after every element whose index is not greater than m's
RECURSIVE InsertByIndex(_, _)
InsertByIndex(sorted, m) ==
  IF sorted = <<>> THEN <<m>>
  ELSE IF sorted[Len(sorted)].index <= m.index
       THEN Append(sorted, m)
       ELSE Append(InsertByIndex(SubSeq(sorted, 1, Len(sorted) - 1), m),
                   sorted[Len(sorted)])

\* matches.sort((a, b) => a.index - b.index): Array.prototype.sort is stable
RECURSIVE SortByIndex(_)
SortByIndex(ms) ==
  IF ms = <<>> THEN <<>>
  ELSE InsertByIndex(SortByIndex(SubSeq(ms, 1, Len(ms) - 1)), ms[Len(ms)])

\* new TextRun({ text, ...format }); from/to record the input span [from, to)
\* the run consumed
TextRun(t, format, from, to) ==
  [text |-> t, format |-> format, from |-> from, to |-> to]

(***************************************************************************)
(* parseInlineFormatting, statement by statement.                          *)
(***************************************************************************)
\* convert() has not reached its awaited steps
AwaitIdle ==
  /\ ppc = "idle"
  /\ browser = "none"
  /\ closeCalls = 0
  /\ pending = "none"
  /\ buffer = <<>>

\* numberToColumnLetter is not running
LetterIdle ==
  /\ column = 0
  /\ lnum = 0
  /\ lresult = <<>>
  /\ lpc = "idle"

\* renderDocBlock is not running
DocIdle ==
  /\ dcontent = <<>>
  /\ dlines = <<>>
  /\ dli = 1
  /\ dparagraph = <<>>
  /\ delements = <<>>
  /\ dpc = "idle"

\* sanitizeWorksheetName is not running
NameIdle ==
  /\ sname = <<>>
  /\ sresult = <<>>
  /\ spc = "idle"

UnitIdle == DocIdle /\ NameIdle

\* no concurrent calls are under way
ConcIdle ==
  /\ calls = <<>>
  /\ heap = <<>>

\* no block loop is running
LoopIdle ==
  /\ options = [includeMetadata |-> "undefined"]
  /\ document = <<>>
  /\ backend = "none"
  /\ bi = 1
  /\ cpc = "idle"
  /\ html = <<>>
  /\ elements = <<>>
  /\ workbook = <<>>
  /\ currentRow = 1
  /\ hasSheets = FALSE
  /\ worksheetIndex = 1
  /\ thrown = "none"

\* no conversion is running
ConvIdle == LoopIdle /\ AwaitIdle /\ LetterIdle /\ ConcIdle /\ UnitIdle

TokInit ==
  /\ text \in StringsUpTo(Alphabet, MaxLen)
  /\ matches = <<>>
  /\ runs = <<>>
  /\ currentIndex = 0
  /\ mi = 1
  /\ pc = "find"
  /\ ConvIdle

\* the loop over the patterns that collects every match
TokFind ==
  /\ pc = "find"
  /\ matches' = FindMatches(text, Len(patterns))
  /\ pc' = "sort"
  /\ UNCHANGED <<text, runs, currentIndex, mi, convVars>>

\* matches.sort(...)
TokSort ==
  /\ pc = "sort"
  /\ matches' = SortByIndex(matches)
  /\ pc' = "walk"
  /\ UNCHANGED <<text, runs, currentIndex, mi, convVars>>

\* the plain run pushed before a match that starts after the cursor
GapRuns(t, cur, m) ==
  IF m.index > cur /\ Substring(t, cur, m.index) # <<>>
  THEN <<TextRun(Substring(t, cur, m.index), "plain", cur, m.index)>>
  ELSE <<>>

\* a cursor that stops on the closing delimiter's last character
AdvanceCursorShort(m) == m.index + m.length - 1

\* the cursor after a match was emitted
AdvanceCursor(m) == m.index + m.length

\* one iteration of `for (const match of matches)`
TokWalk ==
  /\ pc = "walk"
  /\ mi <= Len(matches)
  /\ LET m == matches[mi]
     IN  /\ runs' = runs \o GapRuns(text, currentIndex, m)
                         \o <<TextRun(m.text, m.format, m.index, m.index + m.length)>>
         /\ currentIndex' = AdvanceCursor(m)
  /\ mi' = mi + 1
  /\ UNCHANGED <<text, matches, pc, convVars>>

\* the plain run for the text left after the last match
RemainingRuns(t, cur) ==
  IF cur < Len(t) /\ SubstringFrom(t, cur) # <<>>
  THEN <<TextRun(SubstringFrom(t, cur), "plain", cur, Len(t))>>
  ELSE <<>>

\* the loop is over: "Add any remaining plain text"
TokRemaining ==
  /\ pc = "walk"
  /\ mi > Len(matches)
  /\ runs' = runs \o RemainingRuns(text, currentIndex)
  /\ pc' = "fallback"
  /\ UNCHANGED <<text, matches, currentIndex, mi, convVars>>

\* a return without the final "no formatting was found" push
FallbackRunsMissing(t, rs) == <<>>

\* the run pushed when nothing was pushed so far
FallbackRuns(t, rs) ==
  IF Len(rs) = 0 THEN <<TextRun(t, "plain", 0, Len(t))>> ELSE <<>>

\* if (runs.length === 0) runs.push(new TextRun({ text })); return runs
TokReturn ==
  /\ pc = "fallback"
  /\ runs' = runs \o FallbackRuns(text, runs)
  /\ pc' = "done"
  /\ UNCHANGED <<text, matches, currentIndex, mi, convVars>>

TokNext == TokFind \/ TokSort \/ TokWalk \/ TokRemaining \/ TokReturn

SpecTok == TokInit /\ [][TokNext]_vars

\* `for (const match of matches)` from match i on: the runs and the cursor
\* when the loop is over
RECURSIVE WalkMatches(_, _, _, _, _)
WalkMatches(t, ms, i, cur, rs) ==
  IF i > Len(ms) THEN [runs |-> rs, currentIndex |-> cur]
  ELSE WalkMatches(t, ms, i + 1, AdvanceCursor(ms[i]),
                   rs \o GapRuns(t, cur, ms[i])
                      \o <<TextRun(ms[i].text, ms[i].format, ms[i].index,
                                   ms[i].index + ms[i].length)>>)

\* parseInlineFormatting(text) as its callers see it: the returned runs
ParseInlineFormatting(t) ==
  LET ms == SortByIndex(FindMatches(t, Len(patterns)))
      w  == WalkMatches(t, ms, 1, 0, <<>>)
      rs == w.runs \o RemainingRuns(t, w.currentIndex)
  IN  rs \o FallbackRuns(t, rs)

(***************************************************************************)
(* JavaScript values the sheet renderers handle.                           *)
(***************************************************************************)
\* an optional field: <<>> when undefined, <<v>> when it holds v
None == <<>>

Some(v) == <<v>>

\* a scalar cell value: a string, a number or a boolean
StringValue(s) == [t |-> "string", s |-> s, n |-> 0, b |-> FALSE]

NumberValue(n) == [t |-> "number", s |-> <<>>, n |-> n, b |-> FALSE]

BooleanValue(b) == [t |-> "boolean", s |-> <<>>, n |-> 0, b |-> b]

\* ToBoolean: false, 0 and the empty string are falsy
Truthy(v) ==
  CASE v.t = "string"  -> v.s # <<>>
    [] v.t = "number"  -> v.n # 0
    [] v.t = "boolean" -> v.b

DigitChars == <<"0", "1", "2", "3", "4", "5", "6", "7", "8", "9">>

\* the decimal digits of a natural number
RECURSIVE NatToString(_)
NatToString(n) ==
  IF n < 10 THEN <<DigitChars[n + 1]>>
  ELSE NatToString(n \div 10) \o <<DigitChars[(n % 10) + 1]>>

\* String(n) and `${n}` for an integer n
IntToString(n) == IF n < 0 THEN <<"-">> \o NatToString(-n) ELSE NatToString(n)

\* String(value) for a scalar
JsString(v) ==
  CASE v.t = "string"  -> v.s
    [] v.t = "number"  -> IntToString(v.n)
    [] v.t = "boolean" -> IF v.b THEN <<"t", "r", "u", "e">>
                                  ELSE <<"f", "a", "l", "s", "e">>

\* a number as Number(), Math.max and the loop guards see it
Num(n) == [k |-> "num", v |-> n]

NaN == [k |-> "nan", v |-> 0]

NegInfinity == [k |-> "neginf", v |-> 0]

IsDigit(ch) == \E d \in 1..10 : DigitChars[d] = ch

DigitValue(ch) == (CHOOSE d \in 1..10 : DigitChars[d] = ch) - 1

RECURSIVE DigitsValue(_)
DigitsValue(cs) ==
  IF cs = <<>> THEN 0
  ELSE 10 * DigitsValue(SubSeq(cs, 1, Len(cs) - 1)) + DigitValue(cs[Len(cs)])

IsSpace(ch) == ch \in {" ", "\t", "\n", "\r"}

\* String.prototype.trim
RECURSIVE Trim(_)
Trim(cs) ==
  IF cs = <<>> THEN <<>>
  ELSE IF IsSpace(cs[1]) THEN Trim(Tail(cs))
  ELSE IF IsSpace(cs[Len(cs)]) THEN Trim(SubSeq(cs, 1, Len(cs) - 1))
  ELSE cs

\* Number(s) for the strings a key can hold: surrounding white space is
\* dropped, the empty string is 0, a run of digits is its decimal value, and
\* anything else is NaN (signs, fractions and exponents are not drawn)
ToNumber(cs) ==
  LET body == Trim(cs)
  IN  IF body = <<>> THEN Num(0)
      ELSE IF \A k \in 1..Len(body) : IsDigit(body[k]) THEN Num(DigitsValue(body))
      ELSE NaN

\* String.prototype.split(',')
RECURSIVE SplitComma(_)
SplitComma(cs) ==
  IF \A k \in 1..Len(cs) : cs[k] # ","
  THEN <<cs>>
  ELSE LET k == CHOOSE i \in 1..Len(cs) :
                   cs[i] = "," /\ \A j \in 1..(i - 1) : cs[j] # ","
       IN  <<SubSeq(cs, 1, k - 1)>> \o SplitComma(SubSeq(cs, k + 1, Len(cs)))

\* k.split(',').map(Number)
KeyCoords(key) ==
  LET parts == SplitComma(key)
  IN  [i \in 1..Len(parts) |-> ToNumber(parts[i])]

\* c[i] of a coordinate array, 0-based; ToNumber(undefined) is NaN
CoordAt(c, i) == IF i + 1 <= Len(c) THEN c[i + 1] ELSE NaN

\* Math.max(...xs): -Infinity without arguments, NaN when an argument is NaN
MathMax(xs) ==
  IF xs = {} THEN NegInfinity
  ELSE IF \E x \in xs : x.k = "nan" THEN NaN
  ELSE Num(CHOOSE m \in {x.v : x \in xs} : \A x \in xs : x.v <= m)

\* Math.max(...coords.map(c => c[i])) over Object.keys(data)
MaxCoordOf(data, i) ==
  MathMax({CoordAt(KeyCoords(key), i) : key \in DOMAIN data})

\* a loop guard written r < max
LessThan(r, max) == max.k = "num" /\ r < max.v

\* r <= max for an integer r: false when max is NaN or -Infinity
LessEq(r, max) == max.k = "num" /\ r <= max.v

\* the key `${r},${c}`
KeyOf(r, c) == IntToString(r) \o <<",">> \o IntToString(c)

\* sheet.data[key]: <<>> when the object has no such key
Lookup(data, key) == IF key \in DOMAIN data THEN Some(data[key]) ELSE None

\* ToBoolean of an optional string field such as sheet.name
TruthyString(opt) == opt # None /\ opt[1] # <<>>

\* sheet.cols as an array of labels, or as one string such as "[A, B]"
ArrayCols(labels) == [isArray |-> TRUE, items |-> labels, str |-> <<>>]

StringCols(cs) == [isArray |-> FALSE, items |-> <<>>, str |-> cs]

\* if (sheet.cols): an array is truthy even when empty, a string unless empty
TruthyCols(opt) == opt # None /\ (opt[1].isArray \/ opt[1].str # <<>>)

\* .replace(/[[\]]/g, '')
RemoveBrackets(cs) == SelectSeq(cs, LAMBDA ch : ch \notin {"[", "]"})

\* Array.isArray(sheet.cols) ? sheet.cols
\*   : String(sheet.cols).replace(/[[\]]/g, '').split(',').map(s => s.trim())
ColsOf(sheet) ==
  LET c == sheet.cols[1]
  IN  IF c.isArray THEN c.items
      ELSE LET parts == SplitComma(RemoveBrackets(c.str))
           IN  [i \in 1..Len(parts) |-> Trim(parts[i])]

(***************************************************************************)
(* Blocks other than sheets, and the string functions their renderers use. *)
(***************************************************************************)
MetaBlock(title, author, date, theme) ==
  [type |-> "meta",
   props |-> [title |-> title, author |-> author, date |-> date, theme |-> theme]]

DocBlock(content) == [type |-> "doc", content |-> content]

SlideBlock(title, content) == [type |-> "slide", title |-> title, content |-> content]

\* a block of a kind none of the converters' switches names
OtherBlock == [type |-> "chart"]

\* the inline nodes of slide content: a string, a link, an image, or an
\* object with or without a text field
StringNode(cs) == [type |-> "string", text |-> Some(cs), alt |-> None]

LinkNode(cs) == [type |-> "link", text |-> Some(cs), alt |-> None]

ImageNode(alt) == [type |-> "image", text |-> None, alt |-> alt]

TextNode(t) == [type |-> "text", text |-> t, alt |-> None]

\* the blocks of slide.content
ParagraphContent(nodes) == [type |-> "paragraph", content |-> nodes, items |-> <<>>]

ListContent(items) == [type |-> "unordered_list", content |-> <<>>, items |-> items]

\* the bullet character U+2022 that starts a list item
Bullet == "<bullet>"

\* extractText(run)
ExtractText(run) ==
  CASE run.type = "string" -> run.text[1]
    [] run.type = "link"   -> run.text[1]
    [] run.type = "image"  -> IF TruthyString(run.alt) THEN run.alt[1] ELSE <<>>
    [] OTHER               -> IF TruthyString(run.text) THEN run.text[1] ELSE <<>>

\* Array.prototype.join(sep) over strings
RECURSIVE Join(_, _)
Join(parts, sep) ==
  IF parts = <<>> THEN <<>>
  ELSE IF Len(parts) = 1 THEN parts[1]
  ELSE parts[1] \o sep \o Join(Tail(parts), sep)

\* content.map(this.extractText).join('')
NodesText(nodes) == Join([i \in 1..Len(nodes) |-> ExtractText(nodes[i])], <<>>)

\* String.prototype.startsWith
StartsWith(cs, prefix) ==
  Len(prefix) <= Len(cs) /\ SubSeq(cs, 1, Len(prefix)) = prefix

\* the first position (1-based) at or after p where sep occurs in cs, 0 if none
IndexOfFrom(cs, sep, p) ==
  LET found == {k \in p..(Len(cs) - Len(sep) + 1) :
                  StartsWith(SubSeq(cs, k, Len(cs)), sep)}
  IN  IF found = {} THEN 0 ELSE SetMin(found)

\* String.prototype.split(sep) for a non-empty separator
RECURSIVE Split(_, _)
Split(cs, sep) ==
  LET k == IndexOfFrom(cs, sep, 1)
  IN  IF k = 0 THEN <<cs>>
      ELSE <<SubSeq(cs, 1, k - 1)>> \o Split(SubSeq(cs, k + Len(sep), Len(cs)), sep)

\* String.prototype.replace(sep, by) with a global pattern for the literal sep
ReplaceAll(cs, sep, by) == Join(Split(cs, sep), by)

\* x || '' for an optional string
OrEmpty(opt) == IF TruthyString(opt) THEN opt[1] ELSE <<>>

(***************************************************************************)
(* PDFConverter: the sheet block.  The HTML appended for a block is kept   *)
(* as one fragment record instead of its characters; styling is left out.  *)
(***************************************************************************)
\* the replacement text of one character in escapeHtml
EscapeChar(ch) ==
  CASE ch = "&"  -> <<"&", "a", "m", "p", ";">>
    [] ch = "<"  -> <<"&", "l", "t", ";">>
    [] ch = ">"  -> <<"&", "g", "t", ";">>
    [] ch = "\"" -> <<"&", "q", "u", "o", "t", ";">>
    [] ch = "'"  -> <<"&", "#", "3", "9", ";">>
    [] OTHER     -> <<ch>>

\* escapeHtml(text): div.innerHTML is '' and so the replaced text is returned
RECURSIVE EscapeHtml(_)
EscapeHtml(cs) ==
  IF cs = <<>> THEN <<>> ELSE EscapeChar(cs[1]) \o EscapeHtml(Tail(cs))

\* const value = sheet.data[key] || ''
PdfCellValue(data, key) ==
  IF Lookup(data, key) # None /\ Truthy(Lookup(data, key)[1])
  THEN Lookup(data, key)[1]
  ELSE StringValue(<<>>)

\* for (let c = 1; c <= maxCol; c++) html += `<td>...</td>`
RECURSIVE PdfCells(_, _, _, _)
PdfCells(data, r, c, maxCol) ==
  IF ~LessEq(c, maxCol) THEN <<>>
  ELSE <<EscapeHtml(JsString(PdfCellValue(data, KeyOf(r, c))))>>
       \o PdfCells(data, r, c + 1, maxCol)

\* for (let r = 1; r <= maxRow; r++) html += '<tr>' ... '</tr>'
RECURSIVE PdfRows(_, _, _, _)
PdfRows(data, r, maxRow, maxCol) ==
  IF ~LessEq(r, maxRow) THEN <<>>
  ELSE <<PdfCells(data, r, 1, maxCol)>> \o PdfRows(data, r + 1, maxRow, maxCol)

\* the <tbody> of a sheet: one <tr> per row of the bounding box
PdfBody(data) == PdfRows(data, 1, MaxCoordOf(data, 0), MaxCoordOf(data, 1))

\* the <thead> of a sheet: one <th> per label
PdfHead(sheet) ==
  LET cols == ColsOf(sheet)
  IN  [i \in 1..Len(cols) |-> EscapeHtml(cols[i])]

\* PDFConverter.renderSheetBlock
PdfRenderSheetBlock(sheet) ==
  [ kind  |-> "sheet",
    title |-> IF TruthyString(sheet.name)
              THEN Some(EscapeHtml(sheet.name[1])) ELSE None,
    thead |-> IF TruthyCols(sheet.cols) THEN Some(PdfHead(sheet)) ELSE None,
    tbody |-> IF sheet.data # None THEN Some(PdfBody(sheet.data[1])) ELSE None ]

\* an optional prop, escaped when it is set
EscapedProp(opt) == IF TruthyString(opt) THEN Some(EscapeHtml(opt[1])) ELSE None

\* PDFConverter.renderMetaBlock: '' unless options.includeMetadata is truthy
PdfRenderMetaBlock(meta, opts) ==
  IF opts.includeMetadata # "true" THEN <<>>
  ELSE << [ kind   |-> "meta",
            title  |-> EscapedProp(meta.props.title),
            author |-> EscapedProp(meta.props.author),
            date   |-> EscapedProp(meta.props.date) ] >>

\* one line under /^# (.+)$/gm and its like: a line that starts with the
\* marker and goes on becomes <tag>rest</tag>
HeadingLine(line, marker, tag) ==
  IF /\ StartsWith(line, marker)
     /\ Len(line) > Len(marker)
     /\ \A k \in 1..Len(line) : Dot(line[k])
  THEN <<"<">> \o tag \o <<">">> \o SubSeq(line, Len(marker) + 1, Len(line))
       \o <<"<", "/">> \o tag \o <<">">>
  ELSE line

\* .replace(/^# (.+)$/gm, '<h1>$1</h1>') and its like
ReplaceHeadings(cs, marker, tag) ==
  LET lines == Split(cs, <<"\n">>)
  IN  Join([i \in 1..Len(lines) |-> HeadingLine(lines[i], marker, tag)], <<"\n">>)

\* the text from the cursor on with the matches ms from match i on replaced
\* by <tag>$1</tag>
RECURSIVE WrapMatches(_, _, _, _, _)
WrapMatches(cs, ms, i, cur, tag) ==
  IF i > Len(ms) THEN SubstringFrom(cs, cur)
  ELSE Substring(cs, cur, ms[i].index)
       \o <<"<">> \o tag \o <<">">> \o ms[i].text \o <<"<", "/">> \o tag \o <<">">>
       \o WrapMatches(cs, ms, i + 1, ms[i].index + ms[i].length, tag)

\* .replace(/\*\*(.+?)\*\*/g, '<strong>$1</strong>') and its like
ReplaceMarked(cs, pattern, tag) == WrapMatches(cs, ExecAll(cs, pattern, 0), 1, 0, tag)

\* the chain of replacements of renderDocBlock
PdfDocHtml(content) ==
  LET h1 == ReplaceHeadings(content, <<"#", " ">>, <<"h", "1">>)
      h2 == ReplaceHeadings(h1, <<"#", "#", " ">>, <<"h", "2">>)
      h3 == ReplaceHeadings(h2, <<"#", "#", "#", " ">>, <<"h", "3">>)
      st == ReplaceMarked(h3, patterns[1], <<"s", "t", "r", "o", "n", "g">>)
      em == ReplaceMarked(st, patterns[2], <<"e", "m">>)
      cd == ReplaceMarked(em, patterns[3], <<"c", "o", "d", "e">>)
      pp == ReplaceAll(cd, <<"\n", "\n">>, <<"<", "/", "p", ">", "<", "p", ">">>)
  IN  ReplaceAll(pp, <<"\n">>, <<"<", "b", "r", ">">>)

\* PDFConverter.renderDocBlock
PdfRenderDocBlock(doc) == [kind |-> "doc", body |-> PdfDocHtml(OrEmpty(doc.content))]

\* one block of slide.content: a <ul> of <li> items, or a <p>
PdfSlideContent(contentBlock) ==
  CASE contentBlock.type = "unordered_list" ->
         << [ tag   |-> "ul",
              items |-> [i \in 1..Len(contentBlock.items) |->
                           EscapeHtml(NodesText(contentBlock.items[i].content))] ] >>
    [] contentBlock.type = "paragraph" ->
         << [ tag   |-> "p",
              items |-> <<EscapeHtml(NodesText(contentBlock.content))>> ] >>
    [] OTHER -> <<>>

\* for (const contentBlock of slide.content)
RECURSIVE PdfSlideContents(_)
PdfSlideContents(content) ==
  IF content = <<>> THEN <<>>
  ELSE PdfSlideContent(content[1]) \o PdfSlideContents(Tail(content))

\* PDFConverter.renderSlideBlock
PdfRenderSlideBlock(slide) ==
  [ kind    |-> "slide",
    title   |-> EscapedProp(slide.title),
    content |-> IF slide.content # None
                THEN Some(PdfSlideContents(slide.content[1])) ELSE None ]

\* the switch in generateHTML under the options opts: what one block
\* appends to html
PdfRenderBlockWith(block, opts) ==
  CASE block.type = "meta"  -> PdfRenderMetaBlock(block, opts)
    [] block.type = "doc"   -> <<PdfRenderDocBlock(block)>>
    [] block.type = "slide" -> <<PdfRenderSlideBlock(block)>>
    [] block.type = "sheet" -> <<PdfRenderSheetBlock(block)>>
    [] OTHER                -> <<>>

\* the switch in generateHTML: what one block appends to html
PdfRenderBlock(block) == PdfRenderBlockWith(block, options)

(***************************************************************************)
(* DOCXConverter: the sheet block.                                         *)
(***************************************************************************)
\* the children parseInlineFormatting returns, as TextRun options
InlineRuns(t) ==
  LET rs == ParseInlineFormatting(t)
  IN  [i \in 1..Len(rs) |-> [text |-> rs[i].text, format |-> rs[i].format]]

\* new Paragraph({ children, heading })
Paragraph(children, heading) ==
  [type |-> "paragraph", children |-> children, heading |-> heading]

\* new TableCell({ children: [new Paragraph({ children: [new TextRun(...)] })] })
TableCell(t, bold, shading) == [text |-> t, bold |-> bold, shading |-> shading]

\* new TableRow({ children })
TableRow(cells) == [children |-> cells]

\* new Table({ rows })
Table(rows) == [type |-> "table", rows |-> rows]

\* const value = sheet.data[key] || ''
DocxCellValue(data, key) ==
  IF Lookup(data, key) # None /\ Truthy(Lookup(data, key)[1])
  THEN Lookup(data, key)[1]
  ELSE StringValue(<<>>)

\* for (let c = 1; c <= maxCol; c++) cells.push(new TableCell(...))
RECURSIVE DocxCells(_, _, _, _)
DocxCells(data, r, c, maxCol) ==
  IF ~LessEq(c, maxCol) THEN <<>>
  ELSE <<TableCell(JsString(DocxCellValue(data, KeyOf(r, c))), FALSE, "none")>>
       \o DocxCells(data, r, c + 1, maxCol)

\* for (let r = 1; r <= maxRow; r++) tableRows.push(new TableRow(...))
RECURSIVE DocxDataRows(_, _, _, _)
DocxDataRows(data, r, maxRow, maxCol) ==
  IF ~LessEq(r, maxRow) THEN <<>>
  ELSE <<TableRow(DocxCells(data, r, 1, maxCol))>>
       \o DocxDataRows(data, r + 1, maxRow, maxCol)

\* the header row pushed when sheet.cols is set
DocxHeaderRows(sheet) ==
  IF TruthyCols(sheet.cols)
  THEN LET cols == ColsOf(sheet)
       IN  <<TableRow([i \in 1..Len(cols) |-> TableCell(cols[i], TRUE, "E8E8E8")])>>
  ELSE <<>>

\* the rows collected in tableRows inside `if (sheet.data)`
DocxTableRows(sheet) ==
  DocxHeaderRows(sheet)
  \o DocxDataRows(sheet.data[1], 1, MaxCoordOf(sheet.data[1], 0),
                  MaxCoordOf(sheet.data[1], 1))

\* the table pushed by renderSheetBlock: none without sheet.data, none
\* without rows
DocxSheetTable(sheet) ==
  IF sheet.data # None /\ Len(DocxTableRows(sheet)) > 0
  THEN <<Table(DocxTableRows(sheet))>>
  ELSE <<>>

\* DOCXConverter.renderSheetBlock
DocxRenderSheetBlock(sheet) ==
  (IF TruthyString(sheet.name)
   THEN <<Paragraph(<<[text |-> sheet.name[1], format |-> "bold"]>>, "HEADING_3")>>
   ELSE <<>>)
  \o DocxSheetTable(sheet)

\* `Author: ${meta.props.author}` and its like, for the props that are set
MetaInfo(props) ==
  (IF TruthyString(props.author)
   THEN <<<<"A", "u", "t", "h", "o", "r", ":", " ">> \o props.author[1]>> ELSE <<>>)
  \o (IF TruthyString(props.date)
      THEN <<<<"D", "a", "t", "e", ":", " ">> \o props.date[1]>> ELSE <<>>)
  \o (IF TruthyString(props.theme)
      THEN <<<<"T", "h", "e", "m", "e", ":", " ">> \o props.theme[1]>> ELSE <<>>)

\* DOCXConverter.renderMetaBlock
DocxRenderMetaBlock(meta) ==
  (IF TruthyString(meta.props.title)
   THEN <<Paragraph(<<[text |-> meta.props.title[1], format |-> "bold"]>>, "TITLE")>>
   ELSE <<>>)
  \o (IF Len(MetaInfo(meta.props)) > 0
      THEN <<Paragraph(<<[text |-> Join(MetaInfo(meta.props), <<" ", "|", " ">>),
                          format |-> "italics"]>>, "none")>>
      ELSE <<>>)

\* createParagraph(text)
CreateParagraph(t) == Paragraph(InlineRuns(t), "none")

\* a paragraph of one bullet run followed by the runs of the item text
BulletParagraph(t) ==
  Paragraph(<<[text |-> <<Bullet, " ">>, format |-> "plain"]>> \o InlineRuns(t), "none")

\* if (currentParagraph.length > 0) elements.push(createParagraph(...join(' ')))
FlushParagraph(currentParagraph) ==
  IF Len(currentParagraph) > 0
  THEN <<CreateParagraph(Join(currentParagraph, <<" ">>))>>
  ELSE <<>>

\* a heading paragraph of the line without its marker
HeadingParagraph(trimmed, markerLen, level) ==
  Paragraph(<<[text |-> SubstringFrom(trimmed, markerLen), format |-> "bold"]>>, level)

\* renderDocBlock: `for (const line of lines)` from line i on, and the
\* paragraph left when the loop is over
RECURSIVE DocLines(_, _, _)
DocLines(lines, i, currentParagraph) ==
  IF i > Len(lines) THEN FlushParagraph(currentParagraph)
  ELSE LET trimmed == Trim(lines[i])
       IN  IF StartsWith(trimmed, <<"#", " ">>)
           THEN FlushParagraph(currentParagraph)
                \o <<HeadingParagraph(trimmed, 2, "HEADING_1")>>
                \o DocLines(lines, i + 1, <<>>)
           ELSE IF StartsWith(trimmed, <<"#", "#", " ">>)
           THEN FlushParagraph(currentParagraph)
                \o <<HeadingParagraph(trimmed, 3, "HEADING_2")>>
                \o DocLines(lines, i + 1, <<>>)
           ELSE IF StartsWith(trimmed, <<"#", "#", "#", " ">>)
           THEN FlushParagraph(currentParagraph)
                \o <<HeadingParagraph(trimmed, 4, "HEADING_3")>>
                \o DocLines(lines, i + 1, <<>>)
           ELSE IF StartsWith(trimmed, <<"-", " ">>) \/ StartsWith(trimmed, <<"*", " ">>)
           THEN FlushParagraph(currentParagraph)
                \o <<BulletParagraph(SubstringFrom(trimmed, 2))>>
                \o DocLines(lines, i + 1, <<>>)
           ELSE IF trimmed = <<>>
           THEN FlushParagraph(currentParagraph) \o DocLines(lines, i + 1, <<>>)
           ELSE DocLines(lines, i + 1, Append(currentParagraph, trimmed))

\* DOCXConverter.renderDocBlock
DocxRenderDocBlock(doc) == DocLines(Split(OrEmpty(doc.content), <<"\n">>), 1, <<>>)

\* the paragraphs of one block of slide.content
DocxSlideContent(contentBlock) ==
  CASE contentBlock.type = "unordered_list" ->
         [i \in 1..Len(contentBlock.items) |->
            BulletParagraph(NodesText(contentBlock.items[i].content))]
    [] contentBlock.type = "paragraph" ->
         <<CreateParagraph(NodesText(contentBlock.content))>>
    [] OTHER -> <<>>

\* for (const contentBlock of slide.content)
RECURSIVE DocxSlideContents(_)
DocxSlideContents(content) ==
  IF content = <<>> THEN <<>>
  ELSE DocxSlideContent(content[1]) \o DocxSlideContents(Tail(content))

\* DOCXConverter.renderSlideBlock
DocxRenderSlideBlock(slide) ==
  (IF TruthyString(slide.title)
   THEN <<Paragraph(<<[text |-> slide.title[1], format |-> "bold"]>>, "HEADING_2")>>
   ELSE <<>>)
  \o (IF slide.content # None THEN DocxSlideContents(slide.content[1]) ELSE <<>>)

\* the switch in generateDocumentElements under the options opts: what one
\* block pushes
DocxRenderBlockWith(block, opts) ==
  CASE block.type = "meta"  -> IF opts.includeMetadata # "false"
                               THEN DocxRenderMetaBlock(block) ELSE <<>>
    [] block.type = "doc"   -> DocxRenderDocBlock(block)
    [] block.type = "slide" -> DocxRenderSlideBlock(block)
    [] block.type = "sheet" -> DocxRenderSheetBlock(block)
    [] OTHER                -> <<>>

\* the switch in generateDocumentElements: what one block pushes
DocxRenderBlock(block) == DocxRenderBlockWith(block, options)

(***************************************************************************)
(* XLSXConverter: the sheet block.  A worksheet is its name, the values of *)
(* the cells written so far, keyed by <<row, column>>, and its merged      *)
(* ranges; fonts, fills, borders and column widths are left out.           *)
(***************************************************************************)
\* the characters sanitizeWorksheetName replaces
IsForbiddenNameChar(ch) == ch \in {"\\", "/", "*", "?", "[", "]", ":"}

\* a sanitizer that replaces the characters and does not cut the name
SanitizeUncut(name) ==
  [i \in 1..Len(name) |-> IF IsForbiddenNameChar(name[i]) THEN "_" ELSE name[i]]

\* name.replace(/[\\\/\*\?\[\]:]/g, '_').substring(0, 31)
SanitizeWorksheetName(name) ==
  Substring([i \in 1..Len(name) |->
               IF IsForbiddenNameChar(name[i]) THEN "_" ELSE name[i]], 0, 31)

\* a worksheet as workbook.addWorksheet(name) returns it
NewWorksheet(name) ==
  [name |-> name, cells |-> [x \in {} |-> None], merges |-> <<>>]

\* worksheet.getCell(r, c).value = v
SetCell(ws, r, c, v) ==
  [ws EXCEPT !.cells =
     [x \in (DOMAIN ws.cells) \cup {<<r, c>>} |->
        IF x = <<r, c>> THEN v ELSE ws.cells[x]]]

\* XLSXConverter.getColumnCount
GetColumnCount(sheet) ==
  IF TruthyCols(sheet.cols) THEN Num(Len(ColsOf(sheet)))
  ELSE IF sheet.data # None THEN MaxCoordOf(sheet.data[1], 1)
  ELSE Num(1)

\* "Add sheet title": the title cell, merged over the columns when there
\* are several
XlsxTitle(ws, sheet, row) ==
  LET titled == SetCell(ws, row, 1, StringValue(sheet.name[1]))
      colCount == GetColumnCount(sheet)
  IN  IF colCount.k = "num" /\ colCount.v > 1
      THEN [titled EXCEPT !.merges = Append(@, <<row, 1, row, colCount.v>>)]
      ELSE titled

\* cols.forEach((col, index) => worksheet.getCell(currentRow, index + 1) ...)
RECURSIVE XlsxHeader(_, _, _, _)
XlsxHeader(ws, cols, index, row) ==
  IF index >= Len(cols) THEN ws
  ELSE XlsxHeader(SetCell(ws, row, index + 1, StringValue(cols[index + 1])),
                  cols, index + 1, row)

\* a write that stringifies every value
XlsxTypedValueAsString(value) == StringValue(JsString(value))

\* the value populateSheetData stores for a present CellMap value
XlsxTypedValue(value) ==
  CASE value.t = "number"  -> NumberValue(value.n)
    [] value.t = "boolean" -> BooleanValue(value.b)
    [] OTHER               -> StringValue(JsString(value))

\* if (value !== undefined) { const cell = worksheet.getCell(startRow + r - 1, c) ... }
XlsxWriteCell(ws, data, r, c, startRow) ==
  IF Lookup(data, KeyOf(r, c)) # None
  THEN SetCell(ws, startRow + r - 1, c, XlsxTypedValue(Lookup(data, KeyOf(r, c))[1]))
  ELSE ws

\* for (let c = 1; c <= maxCol; c++)
RECURSIVE XlsxPopulateCols(_, _, _, _, _, _)
XlsxPopulateCols(ws, data, r, c, maxCol, startRow) ==
  IF ~LessEq(c, maxCol) THEN ws
  ELSE XlsxPopulateCols(XlsxWriteCell(ws, data, r, c, startRow),
                        data, r, c + 1, maxCol, startRow)

\* for (let r = 1; r <= maxRow; r++)
RECURSIVE XlsxPopulateRows(_, _, _, _, _, _)
XlsxPopulateRows(ws, data, r, maxRow, maxCol, startRow) ==
  IF ~LessEq(r, maxRow) THEN ws
  ELSE XlsxPopulateRows(XlsxPopulateCols(ws, data, r, 1, maxCol, startRow),
                        data, r + 1, maxRow, maxCol, startRow)

\* XLSXConverter.populateSheetData
PopulateSheetData(ws, sheet, startRow) ==
  IF sheet.data = None THEN ws
  ELSE XlsxPopulateRows(ws, sheet.data[1], 1, MaxCoordOf(sheet.data[1], 0),
                        MaxCoordOf(sheet.data[1], 1), startRow)

(***************************************************************************)
(* XLSXConverter: formulas.                                                *)
(***************************************************************************)
Letters ==
  <<"A", "B", "C", "D", "E", "F", "G", "H", "I", "J", "K", "L", "M",
    "N", "O", "P", "Q", "R", "S", "T", "U", "V", "W", "X", "Y", "Z">>

\* XLSXConverter.numberToColumnLetter
RECURSIVE NumberToColumnLetter(_)
NumberToColumnLetter(num) ==
  IF num > 0
  THEN NumberToColumnLetter((num - 1) \div 26) \o <<Letters[((num - 1) % 26) + 1]>>
  ELSE <<>>

\* the first position at or after p (1-based) that holds no white space
RECURSIVE SkipSpaces(_, _)
SkipSpaces(cs, p) ==
  IF p <= Len(cs) /\ IsSpace(cs[p]) THEN SkipSpaces(cs, p + 1) ELSE p

\* the first position at or after p (1-based) that holds no digit
RECURSIVE SkipDigits(_, _)
SkipDigits(cs, p) ==
  IF p <= Len(cs) /\ IsDigit(cs[p]) THEN SkipDigits(cs, p + 1) ELSE p

\* a match of /\(\s*(\d+),\s*(\d+)\s*\)/ starting at position p (1-based):
\* the two groups and the position after the match
MatchCoordAt(cs, p) ==
  LET r1 == SkipSpaces(cs, p + 1)
      r2 == SkipDigits(cs, r1)
      c1 == SkipSpaces(cs, r2 + 1)
      c2 == SkipDigits(cs, c1)
      e  == SkipSpaces(cs, c2)
      ok == /\ p <= Len(cs) /\ cs[p] = "("
            /\ r2 > r1
            /\ r2 <= Len(cs) /\ cs[r2] = ","
            /\ c2 > c1
            /\ e <= Len(cs) /\ cs[e] = ")"
  IN  [ok  |-> ok,
       row |-> IF ok THEN SubSeq(cs, r1, r2 - 1) ELSE <<>>,
       col |-> IF ok THEN SubSeq(cs, c1, c2 - 1) ELSE <<>>,
       end |-> IF ok THEN e + 1 ELSE p + 1]

\* formula.replace(/\(\s*(\d+),\s*(\d+)\s*\)/g, (match, row, col) => ...)
RECURSIVE ReplaceCoords(_, _)
ReplaceCoords(cs, p) ==
  IF p > Len(cs) THEN <<>>
  ELSE LET m == MatchCoordAt(cs, p)
       IN  IF m.ok
           THEN NumberToColumnLetter(DigitsValue(m.col)) \o m.row
                \o ReplaceCoords(cs, m.end)
           ELSE <<cs[p]>> \o ReplaceCoords(cs, p + 1)

\* a replace without the g flag: only the first match is replaced
ConvertFirstOnly(formula) ==
  LET starts == {p \in 1..Len(formula) : MatchCoordAt(formula, p).ok}
  IN  IF starts = {} THEN formula
      ELSE LET m == MatchCoordAt(formula, SetMin(starts))
           IN  SubSeq(formula, 1, SetMin(starts) - 1)
               \o NumberToColumnLetter(DigitsValue(m.col)) \o m.row
               \o SubSeq(formula, m.end, Len(formula))

\* XLSXConverter.convertToExcelFormula
ConvertToExcelFormula(formula) == ReplaceCoords(formula, 1)

\* a prefix added without looking at the expression
AlwaysPrefixed(expr) == <<"=">> \o expr

\* if (!excelFormula.startsWith('=')) excelFormula = '=' + excelFormula
WithLeadingEquals(expr) ==
  IF Len(expr) >= 1 /\ expr[1] = "=" THEN expr ELSE <<"=">> \o expr

\* cell.value = { formula: excelFormula }
FormulaValue(f) == [t |-> "formula", s |-> f, n |-> 0, b |-> FALSE]

\* XLSXConverter.applyFormulas: for (const formula of formulas)
RECURSIVE ApplyFormulas(_, _)
ApplyFormulas(ws, formulas) ==
  IF formulas = <<>> THEN ws
  ELSE LET f == formulas[1]
       IN  ApplyFormulas(
             SetCell(ws, f.cell[1], f.cell[2],
                     FormulaValue(ConvertToExcelFormula(WithLeadingEquals(f.expr)))),
             Tail(formulas))

(***************************************************************************)
(* The documents conversions are run on.                                   *)
(***************************************************************************)
North == <<"N", "o", "r", "t", "h">>

\* the scalar values of CellMap entries: a string, the empty string, a
\* number, zero and the two booleans
CellValues ==
  { StringValue(North), StringValue(<<>>), NumberValue(100), NumberValue(0),
    BooleanValue(TRUE), BooleanValue(FALSE) }

\* the keys "r,c" of two positive integers
WellFormedKeys == {KeyOf(r, c) : r \in 1..MaxCoord, c \in 1..MaxCoord}

\* keys that do not parse into exactly two positive integers: "x,1", "3"
\* and "2,2,1"
MalformedKeys ==
  { <<"x", ",", "1">>, <<"3">>, <<"2", ",", "2", ",", "1">> }

\* the CellMaps over the well-formed keys with at most n entries
MapsUpTo(n) ==
  UNION { [K -> CellValues] :
            K \in {S \in SUBSET WellFormedKeys : Cardinality(S) <= n} }

\* a CellMap with one more entry
WithEntry(m, key, value) ==
  [k \in (DOMAIN m) \cup {key} |-> IF k = key THEN value ELSE m[k]]

\* CellMaps of at most MaxCells entries, one of them malformed
MalformedMaps ==
  { WithEntry(m, bad, StringValue(<<"b", "a", "d">>)) :
      m \in MapsUpTo(MaxCells - 1), bad \in MalformedKeys }

CellMaps == MapsUpTo(MaxCells) \cup MalformedMaps

SheetBlock(name, cols, data, formulas) ==
  [type |-> "sheet", name |-> name, cols |-> cols, data |-> data,
   formulas |-> formulas]

SheetNames == {None, Some(<<"S">>)}

\* the widest header list drawn
WideHeader == Some(ArrayCols([i \in 1..(MaxCoord + 1) |-> <<"Q", DigitChars[i + 1]>>]))

\* no header list, one shorter and one longer than the bounding boxes drawn,
\* and the string form "[A, B]"
HeaderLists ==
  { None,
    Some(ArrayCols(<<<<"A">>>>)),
    WideHeader,
    Some(StringCols(<<"[", "A", ",", " ", "B", "]">>)) }

\* a sheet over every CellMap drawn, bare or with a name and a header list
GridSheets ==
  { SheetBlock(nc[1], nc[2], Some(m), None) :
      nc \in {<<None, None>>, <<Some(<<"S">>), WideHeader>>}, m \in CellMaps }

\* a sheet without CellMap, with an empty one or with a single entry, under
\* every name and header list
SparseSheets ==
  { SheetBlock(name, cols, data, None) :
      name \in SheetNames, cols \in HeaderLists,
      data \in {None} \cup {Some(m) : m \in MapsUpTo(1)} }

\* the sheet that follows another block in a two-block document
LastSheet ==
  SheetBlock(Some(<<"T">>), None,
             Some(WithEntry(<<>>, KeyOf(1, 1), NumberValue(100))), None)

Documents ==
  {<<sh>> : sh \in GridSheets \cup SparseSheets}
    \cup {<<sh, LastSheet>> : sh \in SparseSheets}

Backends == {"pdf", "docx", "xlsx"}

\* the tokenizer is not running
TokIdle ==
  /\ text = <<>>
  /\ matches = <<>>
  /\ runs = <<>>
  /\ currentIndex = 0
  /\ mi = 1
  /\ pc = "idle"

\* convert(document) is called on one of the converters
ConvInit ==
  /\ document \in Documents
  /\ backend \in Backends
  /\ bi = 1
  /\ cpc = "loop"
  /\ html = <<>>
  /\ elements = <<>>
  /\ workbook = <<>>
  /\ currentRow = 1
  /\ hasSheets = FALSE
  /\ worksheetIndex = 1
  /\ thrown = "none"
  /\ options = [includeMetadata |-> "undefined"]
  /\ AwaitIdle
  /\ LetterIdle
  /\ ConcIdle
  /\ UnitIdle
  /\ TokIdle

(***************************************************************************)
(* PDFConverter.generateHTML and DOCXConverter.generateDocumentElements.   *)
(***************************************************************************)
\* an iteration that puts the block's fragment in front: html = ... + html
PdfBlockPrepend ==
  /\ backend = "pdf" /\ cpc = "loop" /\ bi <= Len(document)
  /\ html' = PdfRenderBlock(document[bi]) \o html
  /\ bi' = bi + 1
  /\ UNCHANGED <<document, backend, cpc, elements, workbook, currentRow,
                 hasSheets, thrown, tokVars, extVars>>

\* one iteration of `for (const block of document.blocks)` in generateHTML
PdfBlock ==
  /\ backend = "pdf" /\ cpc = "loop" /\ bi <= Len(document)
  /\ html' = html \o PdfRenderBlock(document[bi])
  /\ bi' = bi + 1
  /\ UNCHANGED <<document, backend, cpc, elements, workbook, currentRow,
                 hasSheets, thrown, tokVars, extVars>>

\* the loop of generateHTML is over
PdfFinish ==
  /\ backend = "pdf" /\ cpc = "loop" /\ bi > Len(document)
  /\ cpc' = "done"
  /\ UNCHANGED <<document, backend, bi, html, elements, workbook, currentRow,
                 hasSheets, thrown, tokVars, extVars>>

\* the iteration with a renderSheetBlock that reads Object.keys(sheet.data)
\* without the `if (sheet.data)` around it: a TypeError for a missing CellMap
DocxBlockUnguarded ==
  /\ backend = "docx" /\ cpc = "loop" /\ bi <= Len(document)
  /\ IF document[bi].type = "sheet" /\ document[bi].data = None
     THEN /\ thrown' = "TypeError"
          /\ cpc' = "failed"
          /\ UNCHANGED <<elements, bi>>
     ELSE /\ elements' = elements \o DocxRenderBlock(document[bi])
          /\ bi' = bi + 1
          /\ UNCHANGED <<thrown, cpc>>
  /\ UNCHANGED <<document, backend, html, workbook, currentRow, hasSheets,
                 tokVars, extVars>>

\* one iteration of `for (const block of document.blocks)` in
\* generateDocumentElements
DocxBlock ==
  /\ backend = "docx" /\ cpc = "loop" /\ bi <= Len(document)
  /\ elements' = elements \o DocxRenderBlock(document[bi])
  /\ bi' = bi + 1
  /\ UNCHANGED <<document, backend, cpc, html, workbook, currentRow,
                 hasSheets, thrown, tokVars, extVars>>

\* the loop of generateDocumentElements is over
DocxFinish ==
  /\ backend = "docx" /\ cpc = "loop" /\ bi > Len(document)
  /\ cpc' = "done"
  /\ UNCHANGED <<document, backend, bi, html, elements, workbook, currentRow,
                 hasSheets, thrown, tokVars, extVars>>

(***************************************************************************)
(* XLSXConverter: content worksheets and the summary worksheet.            *)
(***************************************************************************)
\* the cell of column 1 in the next row, for each text of the list
RECURSIVE WriteColumn(_, _, _)
WriteColumn(ws, row, texts) ==
  IF texts = <<>> THEN ws
  ELSE WriteColumn(SetCell(ws, row, 1, StringValue(texts[1])), row + 1, Tail(texts))

\* the paragraphs addDocContentToWorksheet writes: content.split('\n\n'),
\* trimmed, without the blank ones
DocParagraphs(content) ==
  LET parts == Split(content, <<"\n", "\n">>)
      trimmed == [i \in 1..Len(parts) |-> Trim(parts[i])]
  IN  SelectSeq(trimmed, LAMBDA para : para # <<>>)

\* XLSXConverter.addDocContentToWorksheet
AddDocContent(ws, doc, startRow) ==
  WriteColumn(SetCell(ws, startRow, 1, StringValue(<<"D", "o", "c", "u", "m", "e", "n", "t", " ", "C", "o", "n", "t", "e", "n", "t">>)),
              startRow + 2, DocParagraphs(OrEmpty(doc.content)))

\* the cell texts of one block of slide.content
XlsxSlideContent(contentBlock) ==
  CASE contentBlock.type = "unordered_list" ->
         [i \in 1..Len(contentBlock.items) |->
            <<Bullet, " ">> \o NodesText(contentBlock.items[i].content)]
    [] contentBlock.type = "paragraph" -> <<NodesText(contentBlock.content)>>
    [] OTHER -> <<>>

RECURSIVE XlsxSlideContents(_)
XlsxSlideContents(content) ==
  IF content = <<>> THEN <<>>
  ELSE XlsxSlideContent(content[1]) \o XlsxSlideContents(Tail(content))

\* XLSXConverter.addSlideContentToWorksheet
AddSlideContent(ws, slide, startRow) ==
  LET titled == IF TruthyString(slide.title)
                THEN SetCell(ws, startRow, 1, StringValue(slide.title[1])) ELSE ws
      row    == IF TruthyString(slide.title) THEN startRow + 2 ELSE startRow
  IN  IF slide.content # None
      THEN WriteColumn(titled, row, XlsxSlideContents(slide.content[1]))
      ELSE titled

\* `Content_${worksheetIndex}`
ContentName(index) == <<"C", "o", "n", "t", "e", "n", "t", "_">> \o NatToString(index)

\* XLSXConverter.createContentWorksheet
CreateContentWorksheet(block, name) ==
  CASE block.type = "doc"   -> AddDocContent(NewWorksheet(name), block, 1)
    [] block.type = "slide" -> AddSlideContent(NewWorksheet(name), block, 1)
    [] OTHER                -> NewWorksheet(name)

\* String(prop) when the prop is truthy, undefined otherwise
PropOrUndefined(opt) == IF TruthyString(opt) THEN opt ELSE None

\* XLSXConverter.getMetadata: the props of the first meta block
RECURSIVE GetMetadata(_)
GetMetadata(blocks) ==
  IF blocks = <<>> THEN [title |-> None, author |-> None, date |-> None]
  ELSE IF blocks[1].type = "meta"
       THEN [title  |-> PropOrUndefined(blocks[1].props.title),
             author |-> PropOrUndefined(blocks[1].props.author),
             date   |-> PropOrUndefined(blocks[1].props.date)]
       ELSE GetMetadata(Tail(blocks))

\* .replace(/\n+/g, ' '): each run of newlines becomes one space
RECURSIVE CollapseNewlines(_)
CollapseNewlines(cs) ==
  IF cs = <<>> THEN <<>>
  ELSE IF cs[1] = "\n"
       THEN IF Len(cs) > 1 /\ cs[2] = "\n" THEN CollapseNewlines(Tail(cs))
            ELSE <<" ">> \o CollapseNewlines(Tail(cs))
       ELSE <<cs[1]>> \o CollapseNewlines(Tail(cs))

\* XLSXConverter.getContentPreview
GetContentPreview(content) ==
  LET bare   == SelectSeq(content, LAMBDA ch : ch \notin {"#", "*", Backtick})
      spaced == Trim(CollapseNewlines(bare))
  IN  IF Len(spaced) > 50 THEN Substring(spaced, 0, 47) \o <<".", ".", ".">>
      ELSE spaced

\* a label in column 1 and a value in column 2 of one row
LabelRow(ws, row, label, value) ==
  SetCell(SetCell(ws, row, 1, StringValue(label)), row, 2, StringValue(value))

\* createSummaryWorksheet, "Add document metadata": the worksheet and the
\* row the next part starts at
SummaryMetadata(ws, meta) ==
  IF meta.title = None /\ meta.author = None /\ meta.date = None
  THEN [ws |-> ws, row |-> 1]
  ELSE LET w0 == SetCell(ws, 1, 1, StringValue(<<"D", "o", "c", "u", "m", "e", "n", "t", " ", "I", "n", "f", "o", "r", "m", "a", "t", "i", "o", "n">>))
           w1 == IF meta.title # None
                 THEN LabelRow(w0, 3, <<"T", "i", "t", "l", "e", ":">>, meta.title[1]) ELSE w0
           r1 == IF meta.title # None THEN 4 ELSE 3
           w2 == IF meta.author # None
                 THEN LabelRow(w1, r1, <<"A", "u", "t", "h", "o", "r", ":">>, meta.author[1]) ELSE w1
           r2 == IF meta.author # None THEN r1 + 1 ELSE r1
           w3 == IF meta.date # None
                 THEN LabelRow(w2, r2, <<"D", "a", "t", "e", ":">>, meta.date[1]) ELSE w2
           r3 == IF meta.date # None THEN r2 + 1 ELSE r2
       IN  [ws |-> w3, row |-> r3 + 2]

\* block.type.toUpperCase() for a content block
UpperType(block) ==
  IF block.type = "slide" THEN <<"S", "L", "I", "D", "E">> ELSE <<"D", "O", "C">>

\* the second cell of a content block's summary row
SummaryText(block) ==
  IF block.type = "slide"
  THEN (IF TruthyString(block.title) THEN block.title[1] ELSE <<"U", "n", "t", "i", "t", "l", "e", "d", " ", "S", "l", "i", "d", "e">>)
  ELSE GetContentPreview(OrEmpty(block.content))

\* for (const block of contentBlocks)
RECURSIVE SummaryRows(_, _, _)
SummaryRows(ws, row, contentBlocks) ==
  IF contentBlocks = <<>> THEN ws
  ELSE SummaryRows(LabelRow(ws, row, UpperType(contentBlocks[1]),
                            SummaryText(contentBlocks[1])),
                   row + 1, Tail(contentBlocks))

\* createSummaryWorksheet, "Add content summary"
SummaryContent(ws, row, contentBlocks) ==
  IF Len(contentBlocks) > 0
  THEN SummaryRows(LabelRow(SetCell(ws, row, 1, StringValue(<<"C", "o", "n", "t", "e", "n", "t", " ", "S", "u", "m", "m", "a", "r", "y">>)),
                            row + 2, <<"T", "y", "p", "e">>, <<"T", "i", "t", "l", "e", "/", "C", "o", "n", "t", "e", "n", "t", " ", "P", "r", "e", "v", "i", "e", "w">>),
                   row + 3, contentBlocks)
  ELSE ws

\* the worksheet createSummaryWorksheet fills
SummaryWorksheet(blocks) ==
  LET m == SummaryMetadata(NewWorksheet(<<"S", "u", "m", "m", "a", "r", "y">>), GetMetadata(blocks))
  IN  SummaryContent(m.ws, m.row,
                     SelectSeq(blocks, LAMBDA b : b.type \in {"doc", "slide"}))

\* a createSummaryWorksheet that adds nothing to the workbook
CreateSummaryWorksheetDropped(wb, blocks) == wb

\* XLSXConverter.createSummaryWorksheet: workbook.addWorksheet('Summary')
\* and its cells
CreateSummaryWorksheet(wb, blocks) == Append(wb, SummaryWorksheet(blocks))

\* setWorkbookMetadata: workbook.creator and workbook.title
WorkbookProperties(blocks) ==
  LET meta == GetMetadata(blocks)
  IN  [creator |-> IF meta.author # None THEN meta.author[1] ELSE <<"O", "m", "n", "i", "S", "c", "r", "i", "p", "t", " ", "O", "S", "F">>,
       title   |-> IF meta.title # None THEN meta.title[1] ELSE <<"O", "S", "F", " ", "W", "o", "r", "k", "b", "o", "o", "k">>]

(***************************************************************************)
(* XLSXConverter.generateWorksheets and createSheetWorksheet.              *)
(***************************************************************************)
\* the worksheet createSheetWorksheet is filling: the one added last
CurrentSheet == workbook[Len(workbook)]

\* the workbook with its last worksheet replaced
WithCurrentSheet(ws) == [workbook EXCEPT ![Len(workbook)] = ws]

\* sheet.name || 'Sheet'
SheetNameOrDefault(sheet) ==
  IF TruthyString(sheet.name) THEN sheet.name[1]
  ELSE <<"S", "h", "e", "e", "t">>

\* the row after the title rows: currentRow += 2 when the sheet has a name
RowAfterTitle(sheet, row) == IF TruthyString(sheet.name) THEN row + 2 ELSE row

\* the row after the header row: currentRow++ when the sheet has cols
RowAfterHeader(sheet, row) == IF TruthyCols(sheet.cols) THEN row + 1 ELSE row

\* createSheetWorksheet up to "Add data rows": the worksheet is added and
\* gets its title and header cells
SheetHead(sheet) ==
  LET ws0 == NewWorksheet(SanitizeWorksheetName(SheetNameOrDefault(sheet)))
      ws1 == IF TruthyString(sheet.name) THEN XlsxTitle(ws0, sheet, 1) ELSE ws0
  IN  IF TruthyCols(sheet.cols)
      THEN XlsxHeader(ws1, ColsOf(sheet), 0, RowAfterTitle(sheet, 1))
      ELSE ws1

\* case 'sheet': createSheetWorksheet starts
XlsxSheetHead ==
  /\ backend = "xlsx" /\ cpc = "loop" /\ bi <= Len(document)
  /\ document[bi].type = "sheet"
  /\ workbook' = Append(workbook, SheetHead(document[bi]))
  /\ currentRow' = RowAfterHeader(document[bi], RowAfterTitle(document[bi], 1))
  /\ cpc' = "populate"
  /\ UNCHANGED <<document, backend, bi, html, elements, hasSheets, thrown,
                 tokVars, extVars>>

\* if (sheet.data) this.populateSheetData(worksheet, sheet, currentRow, options)
XlsxPopulate ==
  /\ backend = "xlsx" /\ cpc = "populate"
  /\ workbook' = WithCurrentSheet(
                   PopulateSheetData(CurrentSheet, document[bi], currentRow))
  /\ cpc' = "formulas"
  /\ UNCHANGED <<document, backend, bi, html, elements, currentRow, hasSheets,
                 thrown, tokVars, extVars>>

\* if (sheet.formulas && sheet.formulas.length > 0) this.applyFormulas(...);
\* createSheetWorksheet returns and the loop sets hasSheets
XlsxFormulas ==
  /\ backend = "xlsx" /\ cpc = "formulas"
  /\ workbook' = IF document[bi].formulas # None
                    /\ Len(document[bi].formulas[1]) > 0
                 THEN WithCurrentSheet(
                        ApplyFormulas(CurrentSheet, document[bi].formulas[1]))
                 ELSE workbook
  /\ hasSheets' = TRUE
  /\ bi' = bi + 1
  /\ cpc' = "loop"
  /\ UNCHANGED <<document, backend, html, elements, currentRow, thrown,
                 tokVars, extVars>>

\* case 'doc', case 'slide': createContentWorksheet and worksheetIndex++
XlsxContentBlock ==
  /\ backend = "xlsx" /\ cpc = "loop" /\ bi <= Len(document)
  /\ document[bi].type \in {"doc", "slide"}
  /\ workbook' = Append(workbook, CreateContentWorksheet(
                                     document[bi], ContentName(worksheetIndex)))
  /\ worksheetIndex' = worksheetIndex + 1
  /\ bi' = bi + 1
  /\ UNCHANGED <<document, backend, cpc, html, elements, currentRow, hasSheets,
                 thrown, tokVars, options, awaitVars, letterVars, concVars, unitVars>>

\* a switch with a `default:` that falls into createContentWorksheet
XlsxSkipBlockAsContent ==
  /\ backend = "xlsx" /\ cpc = "loop" /\ bi <= Len(document)
  /\ document[bi].type \notin {"sheet", "doc", "slide"}
  /\ workbook' = IF document[bi].type = "meta" THEN workbook
                 ELSE Append(workbook, CreateContentWorksheet(
                                         document[bi], ContentName(worksheetIndex)))
  /\ bi' = bi + 1
  /\ UNCHANGED <<document, backend, cpc, html, elements, currentRow, hasSheets,
                 thrown, tokVars, extVars>>

\* case 'meta' and the kinds the switch does not name: nothing is done
XlsxSkipBlock ==
  /\ backend = "xlsx" /\ cpc = "loop" /\ bi <= Len(document)
  /\ document[bi].type \notin {"sheet", "doc", "slide"}
  /\ bi' = bi + 1
  /\ UNCHANGED <<document, backend, cpc, html, elements, workbook, currentRow,
                 hasSheets, thrown, tokVars, extVars>>

\* an end of the loop that adds the summary whether or not a sheet was seen
XlsxFinishAlways ==
  /\ backend = "xlsx" /\ cpc = "loop" /\ bi > Len(document)
  /\ workbook' = CreateSummaryWorksheet(workbook, document)
  /\ cpc' = "done"
  /\ UNCHANGED <<document, backend, bi, html, elements, currentRow,
                 hasSheets, thrown, tokVars, extVars>>

\* the loop of generateWorksheets is over:
\* if (!hasSheets) this.createSummaryWorksheet(workbook, document, options)
XlsxFinish ==
  /\ backend = "xlsx" /\ cpc = "loop" /\ bi > Len(document)
  /\ workbook' = IF ~hasSheets THEN CreateSummaryWorksheet(workbook, document)
                 ELSE workbook
  /\ cpc' = "done"
  /\ UNCHANGED <<document, backend, bi, html, elements, currentRow,
                 hasSheets, thrown, tokVars, extVars>>

ConvNext ==
  \/ PdfBlock \/ PdfFinish
  \/ DocxBlock \/ DocxFinish
  \/ XlsxSheetHead \/ XlsxPopulate \/ XlsxFormulas \/ XlsxFinish

SpecConv == ConvInit /\ [][ConvNext]_vars

(***************************************************************************)
(* convert() after the block loop: the awaited calls into puppeteer, docx  *)
(* and ExcelJS.  Each of them either resolves or rejects.                  *)
(***************************************************************************)
\* what the loop variables keep while an awaited step runs
loopVars ==
  <<document, backend, bi, cpc, html, elements, currentRow, hasSheets,
    options, worksheetIndex>>

\* const browser = await puppeteer.launch(...), before the try block
PdfLaunch ==
  /\ backend = "pdf" /\ cpc = "done" /\ ppc = "idle"
  /\ \E ok \in BOOLEAN :
       IF ok THEN /\ browser' = "open"
                  /\ ppc' = "newPage"
                  /\ UNCHANGED thrown
       ELSE /\ thrown' = "LaunchError"
            /\ ppc' = "rejected"
            /\ UNCHANGED browser
  /\ UNCHANGED <<loopVars, workbook, closeCalls, pending, buffer, tokVars,
                 letterVars, concVars, unitVars>>

\* const page = await browser.newPage()
PdfNewPage ==
  /\ backend = "pdf" /\ ppc = "newPage"
  /\ \E ok \in BOOLEAN :
       IF ok THEN ppc' = "setContent" /\ UNCHANGED pending
       ELSE pending' = "NewPageError" /\ ppc' = "finally"
  /\ UNCHANGED <<loopVars, workbook, browser, closeCalls, buffer, thrown,
                 tokVars, letterVars, concVars, unitVars>>

\* await page.setContent(html, ...)
PdfSetContent ==
  /\ backend = "pdf" /\ ppc = "setContent"
  /\ \E ok \in BOOLEAN :
       IF ok THEN ppc' = "pdf" /\ UNCHANGED pending
       ELSE pending' = "SetContentError" /\ ppc' = "finally"
  /\ UNCHANGED <<loopVars, workbook, browser, closeCalls, buffer, thrown,
                 tokVars, letterVars, concVars, unitVars>>

\* const buffer = await page.pdf(pdfOptions); return { buffer: ... }
PdfPdf ==
  /\ backend = "pdf" /\ ppc = "pdf"
  /\ \E ok \in BOOLEAN :
       IF ok THEN buffer' = Some([html |-> html]) /\ UNCHANGED pending
       ELSE pending' = "PdfError" /\ UNCHANGED buffer
  /\ ppc' = "finally"
  /\ UNCHANGED <<loopVars, workbook, browser, closeCalls, thrown, tokVars,
                 letterVars, concVars, unitVars>>

\* finally { await browser.close() }: a rejection here is what convert()
\* rejects with, whatever the try block had thrown or returned
PdfClose ==
  /\ backend = "pdf" /\ ppc = "finally"
  /\ closeCalls' = closeCalls + 1
  /\ \E ok \in BOOLEAN :
       IF ok
       THEN /\ browser' = "closed"
            /\ thrown' = pending
            /\ ppc' = IF pending = "none" THEN "resolved" ELSE "rejected"
       ELSE /\ browser' \in {"open", "closed"}
            /\ thrown' = "CloseError"
            /\ ppc' = "rejected"
  /\ UNCHANGED <<loopVars, workbook, pending, buffer, tokVars, letterVars,
                 concVars, unitVars>>

\* DOCXConverter.getDocumentTitle
RECURSIVE GetDocumentTitle(_)
GetDocumentTitle(blocks) ==
  IF blocks = <<>> THEN <<"O", "S", "F", " ", "D", "o", "c", "u", "m", "e", "n", "t">>
  ELSE IF blocks[1].type = "meta" /\ TruthyString(blocks[1].props.title)
       THEN blocks[1].props.title[1]
       ELSE GetDocumentTitle(Tail(blocks))

\* new Document({...}); const buffer = await Packer.toBuffer(doc)
DocxPack ==
  /\ backend = "docx" /\ cpc = "done" /\ ppc = "idle"
  /\ \E ok \in BOOLEAN :
       IF ok THEN /\ buffer' = Some([title    |-> GetDocumentTitle(document),
                                     children |-> elements])
                  /\ ppc' = "resolved"
                  /\ UNCHANGED thrown
       ELSE /\ thrown' = "PackError"
            /\ ppc' = "rejected"
            /\ UNCHANGED buffer
  /\ UNCHANGED <<loopVars, workbook, browser, closeCalls, pending, tokVars,
                 letterVars, concVars, unitVars>>

\* if (workbook.worksheets.length === 0) createSummaryWorksheet(...);
\* const buffer = await workbook.xlsx.writeBuffer()
XlsxWrite ==
  /\ backend = "xlsx" /\ cpc = "done" /\ ppc = "idle"
  /\ workbook' = IF Len(workbook) = 0
                 THEN CreateSummaryWorksheet(workbook, document)
                 ELSE workbook
  /\ \E ok \in BOOLEAN :
       IF ok THEN /\ buffer' = Some([properties |-> WorkbookProperties(document),
                                     worksheets |-> workbook'])
                  /\ ppc' = "resolved"
                  /\ UNCHANGED thrown
       ELSE /\ thrown' = "WriteError"
            /\ ppc' = "rejected"
            /\ UNCHANGED buffer
  /\ UNCHANGED <<loopVars, browser, closeCalls, pending, tokVars, letterVars,
                 concVars, unitVars>>

(***************************************************************************)
(* convert() on documents that mix the block kinds.                        *)
(***************************************************************************)
MetaSample ==
  MetaBlock(Some(<<"T", "m">>), Some(<<"A", "m">>), Some(<<"D", "m">>), None)

\* a heading, a blank line, a line with an italic span, and a list item
DocSample == DocBlock(Some(<<"#", " ", "H", "\n", "\n", "*", "a", "*", "\n", "-", " ", "i">>))

SlideSample ==
  SlideBlock(Some(<<"S", "t">>),
             Some(<< ParagraphContent(<<StringNode(<<"p">>), LinkNode(<<"k">>)>>),
                     ListContent(<<[content |-> <<StringNode(<<"i">>)>>]>>) >>))

SampleBlocks == {MetaSample, DocSample, SlideSample, LastSheet, OtherBlock}

\* the documents of at most MaxBlocks sample blocks
MixedDocuments == StringsUpTo(SampleBlocks, MaxBlocks)

\* the includeMetadata option: left out, true or false
OptionValues == {"undefined", "true", "false"}

\* convert(document, options) is called on one of the converters
DocInit ==
  /\ document \in MixedDocuments
  /\ backend \in Backends
  /\ options \in [includeMetadata : OptionValues]
  /\ bi = 1
  /\ cpc = "loop"
  /\ html = <<>>
  /\ elements = <<>>
  /\ workbook = <<>>
  /\ currentRow = 1
  /\ hasSheets = FALSE
  /\ worksheetIndex = 1
  /\ thrown = "none"
  /\ AwaitIdle
  /\ LetterIdle
  /\ ConcIdle
  /\ UnitIdle
  /\ TokIdle

DocNext ==
  \/ PdfBlock \/ PdfFinish
  \/ PdfLaunch \/ PdfNewPage \/ PdfSetContent \/ PdfPdf \/ PdfClose
  \/ DocxBlock \/ DocxFinish \/ DocxPack
  \/ XlsxSheetHead \/ XlsxPopulate \/ XlsxFormulas
  \/ XlsxContentBlock \/ XlsxSkipBlock \/ XlsxFinish \/ XlsxWrite

SpecDoc == DocInit /\ [][DocNext]_vars

(***************************************************************************)
(* The block loops as functions of the document.                           *)
(***************************************************************************)
\* PDFConverter.generateHTML: the fragments between the <body> tags
RECURSIVE GenerateHTML(_, _)
GenerateHTML(blocks, opts) ==
  IF blocks = <<>> THEN <<>>
  ELSE PdfRenderBlockWith(blocks[1], opts) \o GenerateHTML(Tail(blocks), opts)

\* DOCXConverter.generateDocumentElements
RECURSIVE GenerateDocumentElements(_, _)
GenerateDocumentElements(blocks, opts) ==
  IF blocks = <<>> THEN <<>>
  ELSE DocxRenderBlockWith(blocks[1], opts)
         \o GenerateDocumentElements(Tail(blocks), opts)

\* XLSXConverter.createSheetWorksheet: the worksheet it adds
CreateSheetWorksheet(sheet) ==
  LET populated == PopulateSheetData(
                     SheetHead(sheet), sheet,
                     RowAfterHeader(sheet, RowAfterTitle(sheet, 1)))
  IN  IF sheet.formulas # None /\ Len(sheet.formulas[1]) > 0
      THEN ApplyFormulas(populated, sheet.formulas[1])
      ELSE populated

\* the worksheets the loop of generateWorksheets adds, the next content
\* worksheet being `Content_${index}`
RECURSIVE LoopWorksheets(_, _)
LoopWorksheets(blocks, index) ==
  IF blocks = <<>> THEN <<>>
  ELSE CASE blocks[1].type = "sheet" ->
              <<CreateSheetWorksheet(blocks[1])>>
                \o LoopWorksheets(Tail(blocks), index)
         [] blocks[1].type \in {"doc", "slide"} ->
              <<CreateContentWorksheet(blocks[1], ContentName(index))>>
                \o LoopWorksheets(Tail(blocks), index + 1)
         [] OTHER -> LoopWorksheets(Tail(blocks), index)

\* XLSXConverter.generateWorksheets
GenerateWorksheets(blocks) ==
  IF \E i \in 1..Len(blocks) : blocks[i].type = "sheet"
  THEN LoopWorksheets(blocks, 1)
  ELSE CreateSummaryWorksheet(LoopWorksheets(blocks, 1), blocks)

(***************************************************************************)
(* XLSXConverter.createSheetWorksheet on sheets with formulas.             *)
(***************************************************************************)
\* the pieces of formula expressions: the leading marker, coordinate pairs
\* inside and outside the populated cells, with and without white space, a
\* pair with a space before the comma, an operator, an operator with an
\* address, and the two halves of a pair
FormulaPieces ==
  { <<"=">>,
    <<"(", "1", ",", "1", ")">>,
    <<"(", "1", ",", "4", ")">>,
    <<"(", " ", "2", ",", " ", "2", "7", " ", ")">>,
    <<"(", "1", " ", ",", "2", ")">>,
    <<"+">>,
    <<"*", "B", "1">>,
    <<"(">>,
    <<"2", ",", "3", ")">> }

\* the concatenations of at most n pieces
RECURSIVE ExprsUpTo(_)
ExprsUpTo(n) ==
  IF n = 0 THEN {<<>>}
  ELSE ExprsUpTo(n - 1)
         \cup {e \o piece : e \in ExprsUpTo(n - 1), piece \in FormulaPieces}

\* sheet.formulas: absent, empty, or one formula for a cell right of or
\* below the data
FormulaLists ==
  {None, Some(<<>>)}
    \cup { Some(<<[cell |-> cell, expr |-> expr]>>) :
             cell \in {<<1, 4>>, <<2, 1>>}, expr \in ExprsUpTo(MaxPieces) }

\* a sheet with the entries (1,1) and (1,2) and the formula "(1,2)" for the
\* cell below them, with and without a name and a header list
LaidOutSheets ==
  { SheetBlock(name, cols,
               Some(WithEntry(WithEntry(<<>>, KeyOf(1, 1), NumberValue(100)),
                              KeyOf(1, 2), NumberValue(7))),
               Some(<<[cell |-> <<2, 1>>, expr |-> <<"(", "1", ",", "2", ")">>]>>)) :
      name \in SheetNames, cols \in {None, Some(ArrayCols(<<<<"A">>, <<"B">>>>))} }

\* a sheet whose CellMap holds the single entry (1,1), with formulas, and
\* the sheets above
FormulaSheets ==
  { SheetBlock(None, None,
               Some(WithEntry(<<>>, KeyOf(1, 1), NumberValue(100))), formulas) :
      formulas \in FormulaLists }
    \cup LaidOutSheets

\* XLSXConverter.convert is called with a document of one such sheet
FormulaInit ==
  /\ document \in {<<sh>> : sh \in FormulaSheets}
  /\ backend = "xlsx"
  /\ bi = 1
  /\ cpc = "loop"
  /\ html = <<>>
  /\ elements = <<>>
  /\ workbook = <<>>
  /\ currentRow = 1
  /\ hasSheets = FALSE
  /\ worksheetIndex = 1
  /\ thrown = "none"
  /\ options = [includeMetadata |-> "undefined"]
  /\ AwaitIdle
  /\ LetterIdle
  /\ ConcIdle
  /\ UnitIdle
  /\ TokIdle

XlsxNext == XlsxSheetHead \/ XlsxPopulate \/ XlsxFormulas \/ XlsxFinish

SpecFormula == FormulaInit /\ [][XlsxNext]_vars

(***************************************************************************)
(* XLSXConverter.numberToColumnLetter, statement by statement.             *)
(***************************************************************************)
\* numberToColumnLetter(column) is called
LetterInit ==
  /\ column \in 0..MaxColumn
  /\ lnum = column
  /\ lresult = <<>>
  /\ lpc = "loop"
  /\ LoopIdle /\ AwaitIdle /\ ConcIdle /\ UnitIdle
  /\ TokIdle

\* a loop body that leaves out `num--`
ColumnLoopBodyNoDecrement(n, r) ==
  [num |-> n \div 26, result |-> <<Letters[(n % 26) + 1]>> \o r]

\* num--; result = String.fromCharCode(65 + (num % 26)) + result;
\* num = Math.floor(num / 26)
ColumnLoopBody(n, r) ==
  [num |-> (n - 1) \div 26, result |-> <<Letters[((n - 1) % 26) + 1]>> \o r]

\* one iteration of `while (num > 0)`
LetterStep ==
  /\ lpc = "loop" /\ lnum > 0
  /\ lnum' = ColumnLoopBody(lnum, lresult).num
  /\ lresult' = ColumnLoopBody(lnum, lresult).result
  /\ UNCHANGED <<column, lpc, tokVars, document, backend, bi, cpc, html,
                 elements, workbook, currentRow, hasSheets, thrown, options,
                 worksheetIndex, awaitVars, concVars, unitVars>>

\* the loop is over: return result
LetterReturn ==
  /\ lpc = "loop" /\ ~(lnum > 0)
  /\ lpc' = "done"
  /\ UNCHANGED <<column, lnum, lresult, tokVars, document, backend, bi, cpc,
                 html, elements, workbook, currentRow, hasSheets, thrown,
                 options, worksheetIndex, awaitVars, concVars, unitVars>>

LetterNext == LetterStep \/ LetterReturn

SpecLetter == LetterInit /\ [][LetterNext]_vars

(***************************************************************************)
(* Properties of the tokenizer.                                            *)
(***************************************************************************)
\* the texts of a run list, concatenated in order
RECURSIVE ConcatText(_)
ConcatText(rs) ==
  IF rs = <<>> THEN <<>> ELSE rs[1].text \o ConcatText(Tail(rs))

\* the delimiter length of the rule that produced a match
DelimLen(format) ==
  LET n == CHOOSE k \in 1..Len(patterns) : patterns[k].format = format
  IN  Len(patterns[n].delim)

\* position p of the input is a delimiter character of match m
IsDelimiterPos(m, p) ==
  \/ m.index <= p /\ p < m.index + DelimLen(m.format)
  \/ m.index + m.length - DelimLen(m.format) <= p /\ p < m.index + m.length

\* the input without the delimiter characters of the matches ms
RECURSIVE StripFrom(_, _, _)
StripFrom(t, ms, p) ==
  IF p >= Len(t) THEN <<>>
  ELSE (IF \E k \in 1..Len(ms) : IsDelimiterPos(ms[k], p)
        THEN <<>> ELSE <<CharAt(t, p)>>)
       \o StripFrom(t, ms, p + 1)

\* no two matches share an input position
MatchesDisjoint(ms) ==
  \A i, j \in 1..Len(ms) :
    i < j => \/ ms[i].index + ms[i].length <= ms[j].index
             \/ ms[j].index + ms[j].length <= ms[i].index

IsMarker(ch) == ch \in {"*", Backtick}

\* C1 (as claimed): for every input, the concatenated text of the returned
\* runs is the input itself, markers included.
C1_RoundTripExact ==
  pc = "done" => ConcatText(runs) = text

\* C1 (amended): for every input, the concatenated text of the returned
\* runs is the input itself exactly when no rule matches; and when the
\* matches share no input position it is the input with the delimiter
\* characters of every match removed.
C1_RoundTripStripped ==
  pc = "done" =>
    /\ (ConcatText(runs) = text) <=> (matches = <<>>)
    /\ MatchesDisjoint(matches) =>
         ConcatText(runs) = StripFrom(text, matches, 0)

\* C1 witness: a finished tokenization of an input with two disjoint
\* matches, whose runs no longer spell the input.
C1_Witness ==
  /\ pc = "done"
  /\ Len(matches) >= 2
  /\ MatchesDisjoint(matches)
  /\ ConcatText(runs) # text

\* C2: the spans of the returned runs partition [0, length): every input
\* position lies in the span of exactly one run.
C2_SpansPartition ==
  pc = "done" =>
    \A p \in 0..(Len(text) - 1) :
      Cardinality({i \in 1..Len(runs) : runs[i].from <= p /\ p < runs[i].to}) = 1

\* text is P ** X ** S with P, X, S non-empty and free of marker characters
IsPlainBoldPlain(t, pl, xl) ==
  /\ pl >= 1 /\ xl >= 1 /\ pl + xl + 4 < Len(t)
  /\ \A k \in 1..Len(t) :
       IF k \in {pl + 1, pl + 2, pl + xl + 3, pl + xl + 4}
       THEN t[k] = "*" ELSE ~IsMarker(t[k])

\* C3: an input P ** X ** S yields exactly the runs P plain, X bold, S plain.
C3_BoldExample ==
  pc = "done" =>
    \A pl, xl \in 1..Len(text) :
      IsPlainBoldPlain(text, pl, xl) =>
        /\ Len(runs) = 3
        /\ runs[1].text = Substring(text, 0, pl) /\ runs[1].format = "plain"
        /\ runs[2].text = Substring(text, pl + 2, pl + 2 + xl)
        /\ runs[2].format = "bold"
        /\ runs[3].text = SubstringFrom(text, pl + xl + 4)
        /\ runs[3].format = "plain"

\* C4: the tokenizer always returns at least one run, and when no rule
\* matches it returns exactly one run, plain, holding the whole input.
C4_NoMatchSingleRun ==
  pc = "done" =>
    /\ Len(runs) >= 1
    /\ (matches = <<>> =>
          /\ Len(runs) = 1
          /\ runs[1].format = "plain"
          /\ runs[1].text = text)

\* C4 witness: a finished tokenization of an input that holds a marker
\* character and yet has no match.
C4_Witness ==
  /\ pc = "done"
  /\ matches = <<>>
  /\ \E k \in 1..Len(text) : IsMarker(text[k])
  /\ Len(runs) = 1

\* the position of the rule that produced a match, in declaration order
RuleOf(format) == CHOOSE k \in 1..Len(patterns) : patterns[k].format = format

\* C20: when the walk starts, and from then on, `matches` holds exactly the
\* matches the three rules found, ordered by start index ascending, and
\* matches with the same start index are in rule declaration order (bold
\* before italic before code).
C20_SortedByIndexStable ==
  pc \in {"walk", "fallback", "done"} =>
    /\ Len(matches) = Len(FindMatches(text, Len(patterns)))
    /\ {matches[i] : i \in 1..Len(matches)}
         = {FindMatches(text, Len(patterns))[i] :
              i \in 1..Len(FindMatches(text, Len(patterns)))}
    /\ \A i, j \in 1..Len(matches) :
         i < j =>
           /\ matches[i].index <= matches[j].index
           /\ matches[i].index = matches[j].index
                => RuleOf(matches[i].format) < RuleOf(matches[j].format)

\* C20 witness: the walk is about to start over a bold and an italic match
\* with the same start index, the bold one first.
C20_Witness ==
  /\ pc = "walk" /\ mi = 1
  /\ \E i \in 1..(Len(matches) - 1) :
       /\ matches[i].index = matches[i + 1].index
       /\ matches[i].format = "bold" /\ matches[i + 1].format = "italics"

(***************************************************************************)
(* Properties of the sheet renderers.  A property of a rendering step is   *)
(* an action formula over the step that renders the block document[bi].    *)
(***************************************************************************)
\* a positive decimal integer without leading zero
IsPositiveDecimal(cs) ==
  /\ cs # <<>>
  /\ \A k \in 1..Len(cs) : IsDigit(cs[k])
  /\ cs[1] # "0"

\* key is "r,c" for two positive integers
IsWellFormedKey(key) ==
  /\ Cardinality({k \in 1..Len(key) : key[k] = ","}) = 1
  /\ LET comma == CHOOSE k \in 1..Len(key) : key[k] = ","
     IN  /\ IsPositiveDecimal(SubSeq(key, 1, comma - 1))
         /\ IsPositiveDecimal(SubSeq(key, comma + 1, Len(key)))

\* the row and the column a well-formed key names
RowOfKey(key) ==
  DigitsValue(SubSeq(key, 1, (CHOOSE k \in 1..Len(key) : key[k] = ",") - 1))

ColOfKey(key) ==
  DigitsValue(SubSeq(key, (CHOOSE k \in 1..Len(key) : key[k] = ",") + 1, Len(key)))

WellFormedKeysOf(data) == {key \in DOMAIN data : IsWellFormedKey(key)}

SetMax(S) == CHOOSE x \in S : \A y \in S : y <= x

\* the largest row and column among the well-formed keys, 0 without any
BoxRows(data) ==
  IF WellFormedKeysOf(data) = {} THEN 0
  ELSE SetMax({RowOfKey(key) : key \in WellFormedKeysOf(data)})

BoxCols(data) ==
  IF WellFormedKeysOf(data) = {} THEN 0
  ELSE SetMax({ColOfKey(key) : key \in WellFormedKeysOf(data)})

\* the block the loop is at is a sheet
AtSheet == bi <= Len(document) /\ document[bi].type = "sheet"

\* ... with a CellMap, all of whose keys are well-formed
AtWellFormedSheet ==
  /\ AtSheet
  /\ document[bi].data # None
  /\ \A key \in DOMAIN document[bi].data[1] : IsWellFormedKey(key)

\* the steps that render a sheet block
PdfSheetStep == backend = "pdf" /\ cpc = "loop" /\ AtSheet /\ bi' = bi + 1

DocxSheetStep == backend = "docx" /\ cpc = "loop" /\ AtSheet /\ bi' = bi + 1

XlsxPopulateStep == backend = "xlsx" /\ cpc = "populate" /\ cpc' = "formulas"

\* what the step appended
NewElements == SubSeq(elements', Len(elements) + 1, Len(elements'))

NewTables == SelectSeq(NewElements, LAMBDA e : e.type = "table")

NewCells ==
  (DOMAIN workbook'[Len(workbook')].cells) \ (DOMAIN workbook[Len(workbook)].cells)

\* the rows of a DOCX table after the header row of the sheet
DocxDataRowsOf(table, sheet) ==
  SubSeq(table.rows, (IF TruthyCols(sheet.cols) THEN 2 ELSE 1), Len(table.rows))

\* the PDF step appended one fragment whose body is nr rows of nc cells
PdfEmitsGrid(nr, nc) ==
  /\ Len(html') = Len(html) + 1
  /\ html'[Len(html')].tbody # None
  /\ Len(html'[Len(html')].tbody[1]) = nr
  /\ \A r \in 1..nr : Len(html'[Len(html')].tbody[1][r]) = nc

\* the DOCX step appended tables whose data rows are nr rows of nc cells;
\* it appended exactly one table when there are rows
DocxEmitsGrid(nr, nc) ==
  /\ nr > 0 => Len(NewTables) = 1
  /\ \A k \in 1..Len(NewTables) :
       LET rows == DocxDataRowsOf(NewTables[k], document[bi])
       IN  /\ Len(rows) = nr
           /\ \A r \in 1..nr : Len(rows[r].children) = nc

\* the worksheet cell populateSheetData uses for a key
CellOfKey(key) == <<currentRow + RowOfKey(key) - 1, ColOfKey(key)>>

\* the XLSX step wrote every cell of nr rows of nc columns
XlsxEmitsGrid(nr, nc) ==
  NewCells = {<<currentRow + r - 1, c>> : r \in 1..nr, c \in 1..nc}

\* the XLSX step wrote one cell for each present key and no other
XlsxEmitsPresent(data) ==
  NewCells = {CellOfKey(key) : key \in DOMAIN data}

\* C5 (as claimed): for a CellMap with well-formed keys only, every backend
\* emits maxRow data rows of maxCol cells each, and no data row when the
\* CellMap is empty.
C5_DenseStep ==
  AtWellFormedSheet =>
    LET data == document[bi].data[1]
    IN  /\ PdfSheetStep => PdfEmitsGrid(BoxRows(data), BoxCols(data))
        /\ DocxSheetStep => DocxEmitsGrid(BoxRows(data), BoxCols(data))
        /\ XlsxPopulateStep => XlsxEmitsGrid(BoxRows(data), BoxCols(data))

C5_DenseInEveryBackend == [][C5_DenseStep]_vars

\* C5 (amended): for a CellMap with well-formed keys only, the PDF and the
\* DOCX backend emit maxRow data rows of maxCol cells each; the XLSX backend
\* writes one worksheet cell for each present key and none for an absent
\* coordinate, all of them within maxRow rows and maxCol columns from the
\* first data row; for an empty CellMap no data row and no cell is emitted.
C5_ExtentStep ==
  AtWellFormedSheet =>
    LET data == document[bi].data[1]
    IN  /\ PdfSheetStep => PdfEmitsGrid(BoxRows(data), BoxCols(data))
        /\ DocxSheetStep => DocxEmitsGrid(BoxRows(data), BoxCols(data))
        /\ XlsxPopulateStep =>
             /\ XlsxEmitsPresent(data)
             /\ \A cell \in NewCells :
                  /\ currentRow <= cell[1]
                  /\ cell[1] <= currentRow + BoxRows(data) - 1
                  /\ 1 <= cell[2] /\ cell[2] <= BoxCols(data)

C5_Extent == [][C5_ExtentStep]_vars

\* C5 witness: a DOCX table of two data rows of two cells has been emitted
\* for a CellMap of two entries, which leaves two coordinates absent.
C5_Witness ==
  /\ backend = "docx" /\ bi = 2
  /\ document[1].data # None
  /\ DOMAIN document[1].data[1] = {KeyOf(1, 2), KeyOf(2, 1)}
  /\ elements # <<>>
  /\ elements[Len(elements)].type = "table"
  /\ Len(DocxDataRowsOf(elements[Len(elements)], document[1])) = 2

\* the text the dense grid holds at (r, c): the string form of the CellMap
\* value for key "r,c", the empty string without such a key
ExpectedText(data, r, c) ==
  IF KeyOf(r, c) \in DOMAIN data THEN JsString(data[KeyOf(r, c)]) ELSE <<>>

\* C6: in the PDF and the DOCX grid of a CellMap with well-formed keys, the
\* cell at (r, c) holds the value of key "r,c", whatever it is, and the empty
\* string when the key is absent.
C6_CellStep ==
  AtWellFormedSheet =>
    LET data == document[bi].data[1]
    IN  /\ PdfSheetStep =>
             \A r \in 1..BoxRows(data), c \in 1..BoxCols(data) :
               html'[Len(html')].tbody[1][r][c] = EscapeHtml(ExpectedText(data, r, c))
        /\ DocxSheetStep =>
             \A k \in 1..Len(NewTables) :
               \A r \in 1..BoxRows(data), c \in 1..BoxCols(data) :
                 DocxDataRowsOf(NewTables[k], document[bi])[r].children[c].text
                   = ExpectedText(data, r, c)

C6_CellHoldsValue == [][C6_CellStep]_vars

\* C7: populateSheetData writes, for every key of a CellMap with well-formed
\* keys, the worksheet cell of that key, and the cell holds the CellMap
\* value with its type: a number as a number, a boolean as a boolean, a
\* string as a string; 0, false and the empty string are written too.
C7_TypedStep ==
  (AtWellFormedSheet /\ XlsxPopulateStep) =>
    LET data == document[bi].data[1]
        cells == workbook'[Len(workbook')].cells
    IN  \A key \in DOMAIN data :
          /\ CellOfKey(key) \in DOMAIN cells
          /\ cells[CellOfKey(key)] = data[key]

C7_TypedWrite == [][C7_TypedStep]_vars

\* C7 witness: the number 0 and the boolean false of a CellMap are in the
\* worksheet, below a title and a header row, as a number and a boolean.
C7_Witness ==
  /\ backend = "xlsx" /\ cpc = "formulas" /\ currentRow = 4
  /\ {<<4, 1>>, <<5, 2>>} \subseteq DOMAIN workbook[1].cells
  /\ workbook[1].cells[<<4, 1>>] = NumberValue(0)
  /\ workbook[1].cells[<<5, 2>>] = BooleanValue(FALSE)

\* the CellMap holds a key that is not well-formed
HasMalformedKey(data) == \E key \in DOMAIN data : ~IsWellFormedKey(key)

\* C8: a malformed key beside well-formed ones is skipped alone: no error is
\* raised, the grid has the extent of the well-formed keys, and every
\* well-formed entry is rendered at its coordinate.
C8_SkipStep ==
  (/\ AtSheet
   /\ document[bi].data # None
   /\ HasMalformedKey(document[bi].data[1])
   /\ WellFormedKeysOf(document[bi].data[1]) # {}) =>
    LET data == document[bi].data[1]
    IN  /\ thrown' = "none"
        /\ PdfSheetStep => PdfEmitsGrid(BoxRows(data), BoxCols(data))
        /\ DocxSheetStep => DocxEmitsGrid(BoxRows(data), BoxCols(data))
        /\ XlsxPopulateStep =>
             \A key \in WellFormedKeysOf(data) :
               CellOfKey(key) \in DOMAIN workbook'[Len(workbook')].cells

C8_MalformedKeySkipped == [][C8_SkipStep]_vars

\* the sheet at the loop position has no CellMap
AtSheetWithoutData == AtSheet /\ document[bi].data = None

\* C9: a sheet without CellMap is rendered with no data row and no error by
\* every backend, and the loop goes on to the next block.
C9_NoDataStep ==
  /\ (AtSheetWithoutData /\ backend = "pdf" /\ cpc = "loop") =>
       /\ thrown' = "none" /\ cpc' = "loop" /\ bi' = bi + 1
       /\ Len(html') = Len(html) + 1
       /\ \/ html'[Len(html')].tbody = None
          \/ html'[Len(html')].tbody[1] = <<>>
  /\ (AtSheetWithoutData /\ backend = "docx" /\ cpc = "loop") =>
       /\ thrown' = "none" /\ cpc' = "loop" /\ bi' = bi + 1
       /\ \A k \in 1..Len(NewTables) :
            Len(DocxDataRowsOf(NewTables[k], document[bi])) = 0
  /\ (AtSheetWithoutData /\ backend = "xlsx" /\ cpc = "loop") =>
       /\ thrown' = "none" /\ cpc' = "populate"
       /\ Len(workbook') = Len(workbook) + 1
  /\ (AtSheetWithoutData /\ backend = "xlsx" /\ cpc = "populate") =>
       /\ thrown' = "none" /\ cpc' = "formulas"
       /\ NewCells = {}
  /\ (AtSheetWithoutData /\ backend = "xlsx" /\ cpc = "formulas") =>
       /\ thrown' = "none" /\ cpc' = "loop" /\ bi' = bi + 1

C9_NoDataIsEmptyTable == [][C9_NoDataStep]_vars

\* C9 witness: the XLSX conversion of a document whose first sheet has no
\* CellMap is over, and the worksheet of the sheet after it holds its cell.
C9_Witness ==
  /\ backend = "xlsx" /\ cpc = "done" /\ thrown = "none"
  /\ Len(document) = 2 /\ document[1].data = None
  /\ Len(workbook) = 2
  /\ workbook[1].cells = <<>>
  /\ DOMAIN workbook[2].cells = {<<1, 1>>, <<3, 1>>}

\* the sheet at the loop position declares a header list
AtSheetWithHeader == AtSheet /\ TruthyCols(document[bi].cols)

\* the sheet has no data row to show: no CellMap, or an empty one
NoEntries(sheet) == sheet.data = None \/ DOMAIN sheet.data[1] = {}

\* C10: a sheet with a header list gets, in every backend, a header row of
\* one cell per label, whatever its CellMap; without entries the table is
\* the header row alone, and no error is raised.
C10_HeaderStep ==
  AtSheetWithHeader =>
    LET sheet == document[bi]
        n == Len(ColsOf(sheet))
    IN  /\ PdfSheetStep =>
             /\ thrown' = "none"
             /\ html'[Len(html')].thead # None
             /\ Len(html'[Len(html')].thead[1]) = n
             /\ NoEntries(sheet) =>
                  \/ html'[Len(html')].tbody = None
                  \/ html'[Len(html')].tbody[1] = <<>>
        /\ DocxSheetStep =>
             /\ thrown' = "none"
             /\ Len(NewTables) = 1
             /\ Len(NewTables[1].rows) >= 1
             /\ Len(NewTables[1].rows[1].children) = n
             /\ NoEntries(sheet) => Len(NewTables[1].rows) = 1
        /\ (backend = "xlsx" /\ cpc = "loop") =>
             /\ thrown' = "none"
             /\ {cell \in DOMAIN workbook'[Len(workbook')].cells :
                   cell[1] = currentRow' - 1}
                  = {<<currentRow' - 1, c>> : c \in 1..n}

C10_HeaderRowAlways == [][C10_HeaderStep]_vars

(***************************************************************************)
(* Properties of the formula translation.                                  *)
(***************************************************************************)
LetterSet == {Letters[k] : k \in 1..Len(Letters)}

\* what a finished numberToColumnLetter call returned for a positive column
C11_Returned ==
  (lpc = "done" /\ column >= 1) =>
    /\ lresult = NumberToColumnLetter(column)
    /\ lresult # <<>>
    /\ \A k \in 1..Len(lresult) : lresult[k] \in LetterSet
    /\ column = 1 => lresult = <<"A">>
    /\ column = 26 => lresult = <<"Z">>
    /\ column = 27 => lresult = <<"A", "A">>
    /\ column = 52 => lresult = <<"A", "Z">>
    /\ column = 53 => lresult = <<"B", "A">>
    /\ \A other \in 1..MaxColumn :
         other # column => NumberToColumnLetter(other) # lresult

\* every step of the loop makes num smaller and keeps it at 0 or above
C11_LoopStep ==
  lpc = "loop" => \/ lpc' = "done"
                  \/ 0 <= lnum' /\ lnum' < lnum

\* C11: numberToColumnLetter is injective on the positive integers, maps 1
\* to "A", 26 to "Z", 27 to "AA", 52 to "AZ" and 53 to "BA", returns a
\* non-empty string of the letters A-Z for every positive integer, and its
\* loop terminates: every iteration decreases num, which never goes below 0.
C11_ColumnLetters == []C11_Returned /\ [][C11_LoopStep]_vars

\* C11 witness: the call for column 53 has returned "BA" after two
\* iterations.
C11_Witness ==
  lpc = "done" /\ column = 53 /\ lnum = 0 /\ lresult = <<"B", "A">>

\* the first position after p that holds ch, 0 when there is none
FirstAfter(cs, p, ch) ==
  IF \E k \in (p + 1)..Len(cs) : cs[k] = ch
  THEN SetMin({k \in (p + 1)..Len(cs) : cs[k] = ch})
  ELSE 0

\* cs is white space followed by one or more digits
IsPaddedLeft(cs) ==
  /\ \E k \in 1..Len(cs) : IsDigit(cs[k])
  /\ \A k \in 1..Len(cs) : IsDigit(cs[k]) \/ IsSpace(cs[k])
  /\ \A i, j \in 1..Len(cs) : (i < j /\ IsDigit(cs[i])) => IsDigit(cs[j])

\* cs is one or more digits with white space on either side
IsPadded(cs) ==
  /\ \E k \in 1..Len(cs) : IsDigit(cs[k])
  /\ \A k \in 1..Len(cs) : IsDigit(cs[k]) \/ IsSpace(cs[k])
  /\ \A i, j, k \in 1..Len(cs) :
       (i < k /\ k < j /\ IsDigit(cs[i]) /\ IsDigit(cs[j])) => IsDigit(cs[k])

\* the coordinate pair "(row,col)" that starts at position p of cs, if one
\* does: its last position, its row digits and its column digits
PairAt(cs, p) ==
  LET e == FirstAfter(cs, p, ")")
      q == FirstAfter(cs, p, ",")
      ok == /\ cs[p] = "(" /\ e > 0 /\ q > 0 /\ q < e
            /\ IsPaddedLeft(SubSeq(cs, p + 1, q - 1))
            /\ IsPadded(SubSeq(cs, q + 1, e - 1))
  IN  [ok  |-> ok,
       end |-> e,
       row |-> IF ok THEN SelectSeq(SubSeq(cs, p + 1, q - 1), IsDigit) ELSE <<>>,
       col |-> IF ok THEN SelectSeq(SubSeq(cs, q + 1, e - 1), IsDigit) ELSE <<>>]

\* cs from position p on, with every coordinate pair replaced by the column
\* letters of its col and its row digits, and every other character kept
RECURSIVE TranslatePairs(_, _)
TranslatePairs(cs, p) ==
  IF p > Len(cs) THEN <<>>
  ELSE IF PairAt(cs, p).ok
       THEN NumberToColumnLetter(DigitsValue(PairAt(cs, p).col))
            \o PairAt(cs, p).row \o TranslatePairs(cs, PairAt(cs, p).end + 1)
       ELSE <<cs[p]>> \o TranslatePairs(cs, p + 1)

\* createSheetWorksheet has returned for a sheet with one formula
FormulaApplied ==
  /\ backend = "xlsx" /\ bi = 2 /\ Len(document) = 1
  /\ document[1].type = "sheet"
  /\ document[1].formulas # None
  /\ Len(document[1].formulas[1]) = 1

\* the formula of the sheet, and the text written to its cell
TheFormula == document[1].formulas[1][1]

WrittenFormula == workbook[1].cells[<<TheFormula.cell[1], TheFormula.cell[2]>>].s

StartsWithEquals(cs) == Len(cs) >= 1 /\ cs[1] = "="

\* the number of "=" characters cs starts with
RECURSIVE LeadingEquals(_)
LeadingEquals(cs) ==
  IF StartsWithEquals(cs) THEN 1 + LeadingEquals(Tail(cs)) ELSE 0

\* C12: the formula written to the cell is the expression, behind its
\* leading "=", with every coordinate pair "(row,col)" replaced by the
\* column letters of col followed by the row digits, whether the pair lies
\* inside the populated cells or not, and with every other character
\* unchanged and in place.
C12_PairsTranslated ==
  FormulaApplied =>
    /\ <<TheFormula.cell[1], TheFormula.cell[2]>> \in DOMAIN workbook[1].cells
    /\ WrittenFormula =
         TranslatePairs(IF StartsWithEquals(TheFormula.expr)
                        THEN TheFormula.expr
                        ELSE <<"=">> \o TheFormula.expr, 1)

\* C12 witness: "(1,4)+( 2, 27 )", whose pairs lie outside the populated
\* cell (1,1), was written as "=D1+AA2".
C12_Witness ==
  /\ FormulaApplied
  /\ TheFormula.expr
       = <<"(", "1", ",", "4", ")", "+">> \o <<"(", " ", "2", ",", " ", "2", "7", " ", ")">>
  /\ WrittenFormula = <<"=", "D", "1", "+", "A", "A", "2">>

LocalsOfConverter(c) == 1

\* the place of what convert() builds: `const html`, `const docElements`
\* and `const workbook = new ExcelJS.Workbook()` are locals of the call
LocalsOf(c) == c

FullSample == <<DocSample, MetaSample, SlideSample, LastSheet, OtherBlock>>

\* the documents the concurrent calls are given
ConcDocuments ==
  {SubSeq(FullSample, 1, k) : k \in 0..Min(MaxBlocks - 1, Len(FullSample))}
    \cup {<<LastSheet>>}

\* a call of convert(document, options) that has not run yet
NewCall(b, d, o) ==
  [backend |-> b, document |-> d, options |-> o, pc |-> "start",
   page |-> None, pending |-> "none", thrown |-> "none", result |-> None]

\* what a call builds before its first await
Built(call) ==
  CASE call.backend = "pdf"  -> GenerateHTML(call.document, call.options)
    [] call.backend = "docx" ->
         GenerateDocumentElements(call.document, call.options)
    [] call.backend = "xlsx" -> GenerateWorksheets(call.document)

\* what a call hands to its serializer, given what it has built
Serialized(call, built) ==
  CASE call.backend = "pdf"  -> [html |-> built]
    [] call.backend = "docx" ->
         [title |-> GetDocumentTitle(call.document), children |-> built]
    [] call.backend = "xlsx" ->
         [properties |-> WorkbookProperties(call.document), worksheets |-> built]

\* two calls with distinct documents, on any converters
ConcInit ==
  /\ calls \in { <<NewCall(b1, d1, o), NewCall(b2, d2, o)>> :
                   b1 \in Backends, b2 \in Backends,
                   d1 \in ConcDocuments, d2 \in ConcDocuments,
                   o \in [includeMetadata : {"true", "false"}] }
  /\ calls[1].document # calls[2].document
  /\ heap = <<None, None>>
  /\ LoopIdle /\ AwaitIdle /\ LetterIdle /\ UnitIdle
  /\ TokIdle

\* call c goes on to the statement `to`
Goto(c, to) == calls' = [calls EXCEPT ![c].pc = to]

\* the step of call c throws inside the try block
Throw(c, error) == calls' = [calls EXCEPT ![c].pc = "finally", ![c].pending = error]

\* convert() of call c rejects
Reject(c, error) == calls' = [calls EXCEPT ![c].pc = "rejected", ![c].thrown = error]

\* convert() is entered: everything up to the first await
ConcStart(c) ==
  /\ calls[c].pc = "start"
  /\ heap' = [heap EXCEPT ![LocalsOf(c)] = Some(Built(calls[c]))]
  /\ Goto(c, CASE calls[c].backend = "pdf"  -> "launch"
               [] calls[c].backend = "docx" -> "pack"
               [] calls[c].backend = "xlsx" -> "generated")

\* await puppeteer.launch(...)
ConcLaunch(c) ==
  /\ calls[c].pc = "launch"
  /\ \E ok \in BOOLEAN : IF ok THEN Goto(c, "newPage") ELSE Reject(c, "LaunchError")
  /\ UNCHANGED heap

\* await browser.newPage()
ConcNewPage(c) ==
  /\ calls[c].pc = "newPage"
  /\ \E ok \in BOOLEAN : IF ok THEN Goto(c, "setContent") ELSE Throw(c, "NewPageError")
  /\ UNCHANGED heap

\* await page.setContent(html, ...)
ConcSetContent(c) ==
  /\ calls[c].pc = "setContent"
  /\ \E ok \in BOOLEAN :
       IF ok THEN calls' = [calls EXCEPT ![c].pc = "pdf",
                                         ![c].page = heap[LocalsOf(c)]]
       ELSE Throw(c, "SetContentError")
  /\ UNCHANGED heap

\* await page.pdf(pdfOptions) and the return statement
ConcPdf(c) ==
  /\ calls[c].pc = "pdf"
  /\ \E ok \in BOOLEAN :
       IF ok THEN calls' = [calls EXCEPT
                             ![c].pc = "finally",
                             ![c].result = Some(Serialized(calls[c], calls[c].page[1]))]
       ELSE Throw(c, "PdfError")
  /\ UNCHANGED heap

\* finally { await browser.close() }
ConcClose(c) ==
  /\ calls[c].pc = "finally"
  /\ \E ok \in BOOLEAN :
       IF ok THEN calls' = [calls EXCEPT
                             ![c].pc = IF calls[c].pending = "none"
                                       THEN "resolved" ELSE "rejected",
                             ![c].thrown = calls[c].pending]
       ELSE Reject(c, "CloseError")
  /\ UNCHANGED heap

\* await Packer.toBuffer(doc) and the return statement
ConcPack(c) ==
  /\ calls[c].pc = "pack"
  /\ \E ok \in BOOLEAN :
       IF ok THEN calls' = [calls EXCEPT
                             ![c].pc = "resolved",
                             ![c].result = Some(Serialized(calls[c],
                                                           heap[LocalsOf(c)][1]))]
       ELSE Reject(c, "PackError")
  /\ UNCHANGED heap

\* convert() resumes behind `await this.generateWorksheets(...)`:
\* if (workbook.worksheets.length === 0) createSummaryWorksheet(...)
ConcGenerated(c) ==
  /\ calls[c].pc = "generated"
  /\ heap' = [heap EXCEPT ![LocalsOf(c)] =
                IF Len(heap[LocalsOf(c)][1]) = 0
                THEN Some(CreateSummaryWorksheet(heap[LocalsOf(c)][1],
                                                 calls[c].document))
                ELSE heap[LocalsOf(c)]]
  /\ Goto(c, "write")

\* await workbook.xlsx.writeBuffer() and the return statement
ConcWrite(c) ==
  /\ calls[c].pc = "write"
  /\ \E ok \in BOOLEAN :
       IF ok THEN calls' = [calls EXCEPT
                             ![c].pc = "resolved",
                             ![c].result = Some(Serialized(calls[c],
                                                           heap[LocalsOf(c)][1]))]
       ELSE Reject(c, "WriteError")
  /\ UNCHANGED heap

\* the next step of one of the calls
ConcStep(c) ==
  \/ ConcStart(c)
  \/ ConcLaunch(c) \/ ConcNewPage(c) \/ ConcSetContent(c) \/ ConcPdf(c)
  \/ ConcClose(c)
  \/ ConcPack(c)
  \/ ConcGenerated(c) \/ ConcWrite(c)

ConcNext ==
  /\ \E c \in 1..Len(calls) : ConcStep(c)
  /\ UNCHANGED <<tokVars, document, backend, bi, cpc, html, elements, workbook,
                 currentRow, hasSheets, thrown, options, worksheetIndex,
                 awaitVars, letterVars, unitVars>>

SpecConc == ConcInit /\ [][ConcNext]_vars

(***************************************************************************)
(* XLSXConverter.sanitizeWorksheetName on names around the length limit.   *)
(***************************************************************************)
ForbiddenNameChars == {"\\", "/", "*", "?", "[", "]", ":"}

\* a name of n characters "a" with the character ch at position at
NameWith(n, ch, at) == [i \in 1..n |-> IF i = at THEN ch ELSE "a"]

\* names of up to MaxNameLen characters with one character, forbidden or
\* not, at the front, at the cut or at the end
NameInputs ==
  { NameWith(n, ch, at) :
      n \in 0..MaxNameLen, ch \in ForbiddenNameChars \cup {"a", " "},
      at \in {1, 31, MaxNameLen} }

\* sanitizeWorksheetName(name) is called
NameInit ==
  /\ sname \in NameInputs
  /\ sresult = <<>>
  /\ spc = "call"
  /\ DocIdle
  /\ LoopIdle /\ AwaitIdle /\ LetterIdle /\ ConcIdle
  /\ TokIdle

\* return name.replace(...).substring(0, 31)
NameSanitize ==
  /\ spc = "call"
  /\ sresult' = SanitizeWorksheetName(sname)
  /\ spc' = "done"
  /\ UNCHANGED <<sname, tokVars, document, backend, bi, cpc, html, elements,
                 workbook, currentRow, hasSheets, thrown, options,
                 worksheetIndex, awaitVars, letterVars, concVars, docVars>>

NameNext == NameSanitize

SpecName == NameInit /\ [][NameNext]_vars

(***************************************************************************)
(* DOCXConverter.renderDocBlock, statement by statement.                   *)
(***************************************************************************)
\* lines of doc content: the three headings, the two list markers, an empty
\* and a blank line, plain text with and without spaces around it, and a
\* heading and a text line that hold an italic span
LineSamples ==
  { <<"#", " ", "H">>,
    <<"#", "#", " ", "H">>,
    <<"#", "#", "#", " ", "H">>,
    <<"-", " ", "i">>,
    <<"*", " ", "i">>,
    <<>>,
    <<" ">>,
    <<"a">>,
    <<" ", "b", " ">>,
    <<"#", " ", "*", "c", "*">>,
    <<"*", "d", "*">> }

\* doc.content of at most MaxLines lines
DocContents ==
  {Join(ls, <<"\n">>) : ls \in StringsUpTo(LineSamples, MaxLines)}

\* renderDocBlock(doc) is called: const content = doc.content || ''
LinesInit ==
  /\ dcontent \in DocContents
  /\ dlines = <<>>
  /\ dli = 1
  /\ dparagraph = <<>>
  /\ delements = <<>>
  /\ dpc = "split"
  /\ NameIdle
  /\ LoopIdle /\ AwaitIdle /\ LetterIdle /\ ConcIdle
  /\ TokIdle

\* what a step of renderDocBlock leaves alone
notDocVars == <<tokVars, document, backend, bi, cpc, html, elements, workbook,
                currentRow, hasSheets, thrown, options, worksheetIndex,
                awaitVars, letterVars, concVars, nameVars>>

\* const lines = content.split('\n')
DocSplit ==
  /\ dpc = "split"
  /\ dlines' = Split(dcontent, <<"\n">>)
  /\ dpc' = "loop"
  /\ UNCHANGED <<dcontent, dli, dparagraph, delements, notDocVars>>

\* const trimmed = line.trim()
Trimmed == Trim(dlines[dli])

\* the loop stands before a line
AtLine == dpc = "loop" /\ dli <= Len(dlines)

\* the heading branch a trimmed line takes: marker length and level
HeadingOf(trimmed) ==
  IF StartsWith(trimmed, <<"#", " ">>)
  THEN [markerLen |-> 2, level |-> "HEADING_1"]
  ELSE IF StartsWith(trimmed, <<"#", "#", " ">>)
  THEN [markerLen |-> 3, level |-> "HEADING_2"]
  ELSE IF StartsWith(trimmed, <<"#", "#", "#", " ">>)
  THEN [markerLen |-> 4, level |-> "HEADING_3"]
  ELSE [markerLen |-> 0, level |-> "none"]

IsHeadingLine(trimmed) == HeadingOf(trimmed).level # "none"

\* trimmed.startsWith('- ') || trimmed.startsWith('* ')
IsListLine(trimmed) ==
  StartsWith(trimmed, <<"-", " ">>) \/ StartsWith(trimmed, <<"*", " ">>)

\* the three heading branches: flush the paragraph, push the heading
DocHeadingLine ==
  /\ AtLine /\ IsHeadingLine(Trimmed)
  /\ delements' = delements \o FlushParagraph(dparagraph)
                    \o <<HeadingParagraph(Trimmed, HeadingOf(Trimmed).markerLen,
                                          HeadingOf(Trimmed).level)>>
  /\ dparagraph' = <<>>
  /\ dli' = dli + 1
  /\ UNCHANGED <<dcontent, dlines, dpc, notDocVars>>

\* the list item branch: flush the paragraph, push the bullet paragraph
DocListLine ==
  /\ AtLine /\ ~IsHeadingLine(Trimmed) /\ IsListLine(Trimmed)
  /\ delements' = delements \o FlushParagraph(dparagraph)
                    \o <<BulletParagraph(SubstringFrom(Trimmed, 2))>>
  /\ dparagraph' = <<>>
  /\ dli' = dli + 1
  /\ UNCHANGED <<dcontent, dlines, dpc, notDocVars>>

\* trimmed === '': the current paragraph ends
DocBlankLine ==
  /\ AtLine /\ ~IsHeadingLine(Trimmed) /\ ~IsListLine(Trimmed)
  /\ Trimmed = <<>>
  /\ delements' = delements \o FlushParagraph(dparagraph)
  /\ dparagraph' = <<>>
  /\ dli' = dli + 1
  /\ UNCHANGED <<dcontent, dlines, dpc, notDocVars>>

\* a text line that becomes a paragraph of its own at once
DocTextLineAlone ==
  /\ AtLine /\ ~IsHeadingLine(Trimmed) /\ ~IsListLine(Trimmed)
  /\ Trimmed # <<>>
  /\ delements' = delements \o <<CreateParagraph(Trimmed)>>
  /\ dli' = dli + 1
  /\ UNCHANGED <<dcontent, dlines, dparagraph, dpc, notDocVars>>

\* else: currentParagraph.push(trimmed)
DocTextLine ==
  /\ AtLine /\ ~IsHeadingLine(Trimmed) /\ ~IsListLine(Trimmed)
  /\ Trimmed # <<>>
  /\ dparagraph' = Append(dparagraph, Trimmed)
  /\ dli' = dli + 1
  /\ UNCHANGED <<dcontent, dlines, delements, dpc, notDocVars>>

\* the loop is over: "Handle any remaining paragraph content", return
DocReturn ==
  /\ dpc = "loop" /\ dli > Len(dlines)
  /\ delements' = delements \o FlushParagraph(dparagraph)
  /\ dpc' = "done"
  /\ UNCHANGED <<dcontent, dlines, dli, dparagraph, notDocVars>>

LinesNext ==
  \/ DocSplit
  \/ DocHeadingLine \/ DocListLine \/ DocBlankLine \/ DocTextLine
  \/ DocReturn

SpecLines == LinesInit /\ [][LinesNext]_vars

(***************************************************************************)
(* Properties of convert() on documents of mixed blocks.                   *)
(***************************************************************************)
\* s is the beginning of t
IsPrefix(s, t) == Len(s) <= Len(t) /\ SubSeq(t, 1, Len(s)) = s

\* the blocks the loop has gone through
BlocksDone == SubSeq(document, 1, bi - 1)

\* between two blocks, the output is that of the blocks gone through, block
\* by block in document order
C14_Rendered ==
  cpc = "loop" =>
    /\ backend = "pdf"  => html = GenerateHTML(BlocksDone, options)
    /\ backend = "docx" => elements = GenerateDocumentElements(BlocksDone, options)
    /\ backend = "xlsx" => workbook = LoopWorksheets(BlocksDone, 1)

\* the worksheets that are complete: all but the one createSheetWorksheet
\* is still writing
FinishedWorksheets ==
  IF cpc \in {"populate", "formulas"}
  THEN SubSeq(workbook, 1, Len(workbook) - 1) ELSE workbook

\* a step never goes back in the document, and it leaves the output of the
\* earlier blocks where it is, at the front
C14_Step ==
  /\ bi' \in {bi, bi + 1}
  /\ IsPrefix(html, html')
  /\ IsPrefix(elements, elements')
  /\ IsPrefix(FinishedWorksheets, workbook')

\* C14: every backend goes through the blocks in document order, one at a
\* time, and appends what a block produces behind everything the blocks
\* before it produced: the HTML fragments, the DOCX elements and the
\* worksheets stand in the order of their blocks, none twice.
C14_BlocksInOrder == []C14_Rendered /\ [][C14_Step]_vars

\* C14 witness: the document doc, unknown block, sheet has gone through the
\* XLSX loop: the worksheet of the doc block stands before that of the sheet.
C14_Witness ==
  /\ backend = "xlsx" /\ cpc = "done"
  /\ document = <<DocSample, OtherBlock, LastSheet>>
  /\ Len(workbook) = 2
  /\ workbook[1].name = <<"C", "o", "n", "t", "e", "n", "t", "_", "1">>
  /\ workbook[2].name = <<"T">>

KnownKinds == {"meta", "doc", "slide", "sheet"}

\* the document without the blocks of unknown kind
KnownBlocks(blocks) == SelectSeq(blocks, LAMBDA b : b.type \in KnownKinds)

\* the loop stands before a block of unknown kind
AtUnknownBlock ==
  /\ cpc = "loop" /\ bi <= Len(document)
  /\ document[bi].type \notin KnownKinds

\* the step over a block of unknown kind: to the next block, nothing thrown,
\* nothing added to the output
C15_SkipStep ==
  AtUnknownBlock =>
    /\ bi' = bi + 1
    /\ cpc' = "loop"
    /\ thrown' = "none"
    /\ <<html, elements, workbook, worksheetIndex, hasSheets>>'
         = <<html, elements, workbook, worksheetIndex, hasSheets>>

\* the loop can always go on over a block of unknown kind, and what the
\* loop has built at its end is what it builds for the document without
\* its unknown blocks
C15_SameWithout ==
  /\ AtUnknownBlock => ENABLED DocNext
  /\ cpc = "done" /\ ppc = "idle" =>
       /\ thrown = "none"
       /\ backend = "pdf"  => html = GenerateHTML(KnownBlocks(document), options)
       /\ backend = "docx" =>
            elements = GenerateDocumentElements(KnownBlocks(document), options)
       /\ backend = "xlsx" => workbook = GenerateWorksheets(KnownBlocks(document))

\* C15: a block whose kind is none of meta, doc, slide, sheet is stepped
\* over by every backend: no error is thrown, nothing is added to the
\* output, and the output for the other blocks is what it is without it.
C15_UnknownSkipped == []C15_SameWithout /\ [][C15_SkipStep]_vars

\* C15 witness: the XLSX loop has gone through slide, unknown block, doc:
\* two content worksheets with consecutive numbers and the summary.
C15_Witness ==
  /\ backend = "xlsx" /\ cpc = "done" /\ thrown = "none"
  /\ document = <<SlideSample, OtherBlock, DocSample>>
  /\ Len(workbook) = 3
  /\ workbook[1].name = <<"C", "o", "n", "t", "e", "n", "t", "_", "1">>
  /\ workbook[2].name = <<"C", "o", "n", "t", "e", "n", "t", "_", "2">>
  /\ workbook[3].name = <<"S", "u", "m", "m", "a", "r", "y">>

\* part occurs in cs
Contains(cs, part) == IndexOfFrom(cs, part, 1) # 0

\* the title, author and date values of the document's meta blocks
MetaValues ==
  UNION { {document[i].props[f][1] : f \in {g \in {"title", "author", "date"} :
                                              TruthyString(document[i].props[g])}} :
          i \in {j \in 1..Len(document) : document[j].type = "meta"} }

\* the HTML has a meta fragment with one of its three fields set
PdfShowsMeta ==
  \E i \in 1..Len(html) :
    /\ html[i].kind = "meta"
    /\ html[i].title # None \/ html[i].author # None \/ html[i].date # None

\* a text run of a DOCX paragraph holds a meta value
DocxShowsMeta ==
  \E i \in 1..Len(elements) :
    /\ elements[i].type = "paragraph"
    /\ \E k \in 1..Len(elements[i].children), v \in MetaValues :
         Contains(elements[i].children[k].text, v)

\* a worksheet cell holds a meta value
XlsxShowsMeta ==
  \E i \in 1..Len(workbook) :
    \E x \in DOMAIN workbook[i].cells, v \in MetaValues :
      workbook[i].cells[x].t = "string" /\ workbook[i].cells[x].s = v

\* C16: the content a backend has built holds a title, author or date of a
\* meta block only if options.includeMetadata is set.
C16_MetadataOnlyIfSet ==
  cpc = "done" /\ options.includeMetadata # "true" =>
    ~PdfShowsMeta /\ ~DocxShowsMeta /\ ~XlsxShowsMeta

\* convert() has settled
Settled == ppc \in {"resolved", "rejected"}

\* C17: once PDFConverter.convert has launched the browser, the browser is
\* closed exactly once by the time convert() settles, and an error thrown
\* by newPage, setContent or pdf is the error convert() rejects with.
C17_ClosedOnceSameFailure ==
  backend = "pdf" /\ Settled /\ browser # "none" =>
    /\ closeCalls = 1
    /\ pending # "none" => ppc = "rejected" /\ thrown = pending

\* C19: the workbook XLSXConverter.convert hands to writeBuffer has at
\* least one worksheet, whatever the document holds.
C19_AtLeastOneWorksheet ==
  backend = "xlsx" /\ ppc # "idle" => Len(workbook) >= 1

\* C19 witness: a document of a meta block and an unknown block was
\* serialized with the summary as its only worksheet.
C19_Witness ==
  /\ backend = "xlsx" /\ ppc = "resolved"
  /\ document = <<MetaSample, OtherBlock>>
  /\ Len(buffer[1].worksheets) = 1
  /\ buffer[1].worksheets[1].name = <<"S", "u", "m", "m", "a", "r", "y">>

(***************************************************************************)
(* Properties of concurrent conversions.                                   *)
(***************************************************************************)
\* call c has been entered and has not settled
InFlight(c) == calls[c].pc \notin {"start", "resolved", "rejected"}

\* what call c returns when it runs alone and its awaited steps resolve
AloneResult(c) == Serialized(calls[c], Built(calls[c]))

\* C18: whatever the order of the steps of two conversions of distinct
\* documents, a conversion in flight holds what it built from its own
\* document, the page it filled holds its own HTML, and a result is the
\* result of the same conversion run alone; an error a call rejects with
\* is one of its own steps' errors.
C18_SameAsAlone ==
  \A c \in 1..Len(calls) :
    /\ InFlight(c) => heap[LocalsOf(c)] = Some(Built(calls[c]))
    /\ calls[c].page # None => calls[c].page = Some(Built(calls[c]))
    /\ calls[c].result # None => calls[c].result = Some(AloneResult(c))
    /\ calls[c].pc = "resolved" => calls[c].result # None /\ calls[c].thrown = "none"
    /\ calls[c].pc = "rejected" =>
         calls[c].thrown \in
           CASE calls[c].backend = "pdf" ->
                  {"LaunchError", "NewPageError", "SetContentError", "PdfError",
                   "CloseError"}
             [] calls[c].backend = "docx" -> {"PackError"}
             [] calls[c].backend = "xlsx" -> {"WriteError"}

\* C18 witness: a PDF and an XLSX conversion in flight together, the first
\* with its page filled and the second about to be written, and then the
\* first one resolved with the HTML of its own document.
C18_Witness ==
  /\ Len(calls) = 2
  /\ calls[1].backend = "pdf" /\ calls[2].backend = "xlsx"
  /\ calls[1].document = <<DocSample, MetaSample>>
  /\ calls[2].document = <<LastSheet>>
  /\ calls[1].pc = "resolved"
  /\ calls[2].pc = "write"
  /\ Len(calls[1].result[1].html) = 2
  /\ calls[1].options.includeMetadata = "true"
  /\ heap[2][1][1].name = <<"T">>

(***************************************************************************)
(* Properties of the tokenizer's cursor.                                   *)
(***************************************************************************)
\* one candidate is emitted: an iteration of `for (const match of matches)`
C21_WalkStep ==
  pc = "walk" /\ mi' = mi + 1 =>
    /\ currentIndex' = matches[mi].index + matches[mi].length
    /\ currentIndex' >= currentIndex

\* C21: while the sorted candidates are walked, the cursor ends up at the
\* end of the candidate just emitted and never moves back.
C21_CursorNeverDecreases == [][C21_WalkStep]_vars

(***************************************************************************)
(* Properties of doc-block splitting.                                      *)
(***************************************************************************)
\* the kind of a line, by its trimmed text
LineKind(line) ==
  LET t == Trim(line)
  IN  CASE StartsWith(t, <<"#", " ">>)           -> "h1"
        [] StartsWith(t, <<"#", "#", " ">>)      -> "h2"
        [] StartsWith(t, <<"#", "#", "#", " ">>) -> "h3"
        [] StartsWith(t, <<"-", " ">>)           -> "item"
        [] StartsWith(t, <<"*", " ">>)           -> "item"
        [] t = <<>>                              -> "blank"
        [] OTHER                                 -> "text"

\* the first line of the run of consecutive text lines that line i is in
RunStart(lines, i) ==
  SetMin({s \in 1..i : \A k \in s..i : LineKind(lines[k]) = "text"})

\* line i is the last of its run of consecutive text lines
EndsRun(lines, i) ==
  /\ LineKind(lines[i]) = "text"
  /\ i = Len(lines) \/ LineKind(lines[i + 1]) # "text"

\* the text of the paragraph that ends with line i: the trimmed lines of
\* its run, joined with single spaces
RunText(lines, i) ==
  Join([k \in 1..(i - RunStart(lines, i) + 1) |->
          Trim(lines[RunStart(lines, i) + k - 1])], <<" ">>)

\* the text of the unit that a heading or list line holds behind its marker
UnitText(line) ==
  LET t == Trim(line)
  IN  CASE LineKind(line) = "h1" -> SubSeq(t, 3, Len(t))
        [] LineKind(line) = "h2" -> SubSeq(t, 4, Len(t))
        [] LineKind(line) = "h3" -> SubSeq(t, 5, Len(t))
        [] LineKind(line) = "item" -> SubSeq(t, 3, Len(t))
        [] OTHER -> t

HeadingLevelOf(kind) ==
  CASE kind = "h1" -> "HEADING_1" [] kind = "h2" -> "HEADING_2"
    [] kind = "h3" -> "HEADING_3" [] OTHER -> "none"

\* the heading text as one bold run
OneBoldRun(t) == <<[text |-> t, format |-> "bold"]>>

\* the element that is complete once line i is read, if any; the runs of a
\* heading are Runs(its text)
UnitAt(lines, i, Runs(_)) ==
  CASE LineKind(lines[i]) \in {"h1", "h2", "h3"} ->
         <<Paragraph(Runs(UnitText(lines[i])), HeadingLevelOf(LineKind(lines[i])))>>
    [] LineKind(lines[i]) = "item" -> <<BulletParagraph(UnitText(lines[i]))>>
    [] EndsRun(lines, i) -> <<CreateParagraph(RunText(lines, i))>>
    [] OTHER -> <<>>

\* the elements of the lines up to line n, in line order
RECURSIVE Flatten(_)
Flatten(seqs) == IF seqs = <<>> THEN <<>> ELSE seqs[1] \o Flatten(Tail(seqs))

UnitsUpTo(lines, n, Runs(_)) == Flatten([i \in 1..n |-> UnitAt(lines, i, Runs)])

\* the number of lines that are not blank
NonBlank(lines) == Cardinality({i \in 1..Len(lines) : LineKind(lines[i]) # "blank"})

\* the number of text lines that do not end their run
Inner(lines) ==
  Cardinality({i \in 1..Len(lines) :
                 LineKind(lines[i]) = "text" /\ ~EndsRun(lines, i)})

\* C22: renderDocBlock returns, in line order, a heading of level 1, 2 or 3
\* for every line whose trimmed text starts with "# ", "## " or "### " (the
\* marker removed), a list item for every line that starts with "- " or
\* "* ", and one paragraph for every run of consecutive other non-blank
\* lines, joined with single spaces; each non-blank line is in exactly one
\* element.
C22_LinesClassified ==
  dpc = "done" =>
    /\ delements = UnitsUpTo(dlines, Len(dlines), OneBoldRun)
    /\ Len(delements) = NonBlank(dlines) - Inner(dlines)

\* C22 witness: "a", " b " and "# H" were rendered as the paragraph "a b"
\* followed by the level-1 heading "H".
C22_Witness ==
  /\ dpc = "done"
  /\ dlines = <<<<"a">>, <<" ", "b", " ">>, <<"#", " ", "H">>>>
  /\ delements = << Paragraph(<<[text |-> <<"a", " ", "b">>, format |-> "plain"]>>, "none"),
                    Paragraph(<<[text |-> <<"H">>, format |-> "bold"]>>, "HEADING_1") >>

\* the texts of the runs of an element
RunTexts(element) == [k \in 1..Len(element.children) |-> element.children[k].text]

\* C23: every heading, list item and paragraph of a doc block holds the
\* runs the inline tokenizer makes of its text, so a marker pair in the
\* unit is a styled run and not literal characters.
C23_UnitsTokenized ==
  dpc = "done" =>
    LET tokenized == UnitsUpTo(dlines, Len(dlines), InlineRuns)
    IN  /\ Len(delements) = Len(tokenized)
        /\ \A i \in 1..Len(delements) :
             RunTexts(delements[i]) = RunTexts(tokenized[i])

(***************************************************************************)
(* Properties of the worksheet cells of formulas and data.                 *)
(***************************************************************************)
\* the worksheet row of the sheet's row 1: below the title rows and the
\* header row
FirstDataRow(sheet) == RowAfterHeader(sheet, RowAfterTitle(sheet, 1))

\* the worksheet cell of the CellMap entry "r,c"
DataCell(sheet, r, c) == <<FirstDataRow(sheet) + r - 1, c>>

\* the worksheet cell that the reference translated from "(r,c)" names:
\* column letters of c, row number r
ReferredCell(r, c) == <<r, c>>

\* C24: in a sheet worksheet the formula for coordinate (row, col) is in
\* the cell a CellMap entry "row,col" occupies, with or without title rows
\* and header row, and the reference translated from a coordinate pair
\* names the cell that holds that CellMap entry.
C24_FormulaAtDataCell ==
  FormulaApplied =>
    LET sheet == document[1]
        ws    == workbook[1]
        at    == DataCell(sheet, TheFormula.cell[1], TheFormula.cell[2])
    IN  /\ at \in DOMAIN ws.cells
        /\ ws.cells[at].t = "formula"
        /\ \A r \in 1..MaxCoord, c \in 1..MaxCoord :
             Lookup(sheet.data[1], KeyOf(r, c)) # None =>
               ReferredCell(r, c) = DataCell(sheet, r, c)

(***************************************************************************)
(* Properties of the worksheets of one workbook.                           *)
(***************************************************************************)
\* C25: the worksheets added to one workbook have pairwise distinct names.
C25_NamesDistinct ==
  backend = "xlsx" =>
    \A i \in 1..Len(workbook), j \in 1..Len(workbook) :
      i # j => workbook[i].name # workbook[j].name

SummaryName == <<"S", "u", "m", "m", "a", "r", "y">>

\* the number of blocks of the document that get a worksheet of their own
OwnWorksheets ==
  Cardinality({i \in 1..Len(document) :
                 document[i].type \in {"sheet", "doc", "slide"}})

HasSheetBlock == \E i \in 1..Len(document) : document[i].type = "sheet"

\* while the loop runs there is no summary; once generateWorksheets is over
\* there is one, behind the worksheets of the blocks, exactly if the
\* document has no sheet block
C26_SummaryPlaced ==
  backend = "xlsx" =>
    /\ cpc # "done" => \A i \in 1..Len(workbook) : workbook[i].name # SummaryName
    /\ cpc = "done" =>
         /\ Len(workbook) = OwnWorksheets + (IF HasSheetBlock THEN 0 ELSE 1)
         /\ \A i \in 1..OwnWorksheets : workbook[i].name # SummaryName
         /\ ~HasSheetBlock =>
              workbook[OwnWorksheets + 1] = SummaryWorksheet(document)

\* the guard of convert() before writeBuffer adds no worksheet
C26_FallbackStep ==
  backend = "xlsx" /\ cpc = "done" => workbook' = workbook

\* C26: XLSXConverter.convert adds the "Summary" worksheet exactly if the
\* document has no sheet block, once, behind the worksheets of all doc and
\* slide blocks, and the guard in convert() never adds another.
C26_SummaryIffNoSheet == []C26_SummaryPlaced /\ [][C26_FallbackStep]_vars

\* C26 witness: a doc and a slide block were serialized as two content
\* worksheets followed by the one summary.
C26_Witness ==
  /\ backend = "xlsx" /\ ppc = "resolved"
  /\ document = <<DocSample, SlideSample>>
  /\ Len(buffer[1].worksheets) = 3
  /\ buffer[1].worksheets[3].name = SummaryName
  /\ buffer[1].worksheets[2].name # SummaryName

(***************************************************************************)
(* Properties of sanitizeWorksheetName.                                    *)
(***************************************************************************)
\* cs holds none of the characters \ / * ? [ ] :
FreeOfForbidden(cs) == \A i \in 1..Len(cs) : cs[i] \notin ForbiddenNameChars

\* C27: sanitizeWorksheetName returns at most 31 characters, none of them
\* one of \ / * ? [ ] :, and returns the name itself when the name is at
\* most 31 characters long and free of those characters.
C27_SanitizedName ==
  spc = "done" =>
    /\ Len(sresult) <= 31
    /\ FreeOfForbidden(sresult)
    /\ Len(sname) <= 31 /\ FreeOfForbidden(sname) => sresult = sname

\* C27 witness: a name of 33 characters that starts with "[" came back as
\* 31 characters that start with "_".
C27_Witness ==
  /\ spc = "done"
  /\ Len(sname) = 33 /\ sname[1] = "["
  /\ Len(sresult) = 31 /\ sresult[1] = "_"
  /\ SubSeq(sresult, 2, 31) = SubSeq(sname, 2, 31)

=============================================================================
